---- MODULE Spec2Model ----
(***************************************************************************)
(* Model of the escalation analyser and the handoff queue of               *)
(* src/src/services/HumanHandoffManager.js.                                *)
(*                                                                         *)
(* The stored file carries its backslashes JSON-escaped ('doesn\\'t work', *)
(* /\\s+/).  Read literally line 100 does not parse, so the module is      *)
(* modelled in its de-escaped reading: the phrase is "doesn't work" and    *)
(* calculateSimilarity splits on white space.                              *)
(*                                                                         *)
(* JavaScript values are modelled as follows.  A string is a sequence of   *)
(* one-character strings wherever the code looks inside it (includes,      *)
(* split, toLowerCase) and a TLA+ string where it is only compared.  An    *)
(* object is a record; null and undefined are records with a kind field.   *)
(* The Map handoffQueue is the sequence of its values in insertion order   *)
(* (a Map iterates in insertion order and set on a present key keeps the   *)
(* key's place).  userId and timestamp of a request are written once and   *)
(* read by nothing in the module; they are left out.                       *)
(***************************************************************************)
EXTENDS Integers, Sequences, FiniteSets, TLC

(***************************************************************************)
(* Bounds                                                                  *)
(***************************************************************************)
\* number of initiateHandoff calls in one behaviour
MaxCalls == 2
\* number of initiateHandoff calls in one behaviour of concurrent callers
MaxConcurrentCalls == 3
\* number of fragments an analysed message is put together from
MaxFragments == 2
\* number of earlier turns in the context of an analysed message
MaxContext == 4

\* length of a text given to detectPrimaryLanguage
MaxText == 3

\* number of ingestDocument calls in one behaviour
MaxIngests == 2

\* pieces a content given to the extractors is made of
MaxPieces == 3

\* number of words in a message given to calculateSimilarity
MaxWords == 3

\* length a caller lets a conversation context grow to after its handoff
MaxTurns == 3

\* number of registerIntegration calls in one behaviour
MaxRegistrations == 2
\* number of connectToERP calls suspended at one time
MaxConnecting == 2

\* number of users whose messages are logged
MaxUsers == 3
\* number of logHandoffRequest calls made on the logger directly
MaxLogged == 4

(***************************************************************************)
(* Values                                                                  *)
(***************************************************************************)
Undefined == [kind |-> "undefined"]
Null == [kind |-> "null"]

Num(n) == [kind |-> "number", value |-> n]
\* a value Math.ceil(x / 60) cannot convert: a BigInt such as 10n
BigIntValue == [kind |-> "bigint", value |-> 10]

Recommendation(p, d, w) ==
    [kind |-> "object", priority |-> p, department |-> d, estimatedWaitTime |-> w]

EscalationInfo(rec) == [kind |-> "object", recommendation |-> rec]

Turn(lang) == [language |-> lang]

Context(turns) == [kind |-> "array", turns |-> turns]

CallArgs(context, escalationInfo) == [context |-> context, escalationInfo |-> escalationInfo]

\* the (context, escalationInfo) arguments callers pass
Arguments ==
    { CallArgs(Context(<< Turn("hi"), Turn("ta") >>),
               EscalationInfo(Recommendation("low", "general", Num(900)))),
      CallArgs(Context(<< Turn("en"), Turn("hi") >>),
               EscalationInfo(Recommendation("urgent", "IT", Num(180)))),
      CallArgs(Context(<< >>), EscalationInfo(Recommendation("medium", "general", Num(600)))),
      CallArgs(Context(<< Turn("mr"), Turn("undefined") >>), EscalationInfo(Null)),
      CallArgs(Context(<< Turn("en") >>),
               EscalationInfo(Recommendation("high", "finance", BigIntValue))),
      CallArgs(Undefined, EscalationInfo(Null)),
      CallArgs(Context(<< >>), Undefined) }

(***************************************************************************)
(* State                                                                   *)
(***************************************************************************)
VARIABLES
    handoffQueue,   \* this.handoffQueue: the requests, in insertion order
    inflight,       \* initiateHandoff calls suspended at their await, oldest first
    nCalls,         \* number of initiateHandoff calls made so far
    lastOutcome,    \* what the most recently finished call handed to its caller
    message,        \* the message given to analyzeEscalationNeed
    recentContext,  \* the context given to analyzeEscalationNeed
    assessment,     \* what analyzeEscalationNeed returned
    compared,       \* the two messages given to calculateSimilarity
    similarityReturned, \* what calculateSimilarity returned
    extractedKnowledge, \* this.extractedKnowledge: the entries, in insertion order
    multilingualIndex,  \* this.multilingualIndex: the entries, in insertion order
    ingesting,      \* ingestDocument calls suspended at extractContent
    nIngests,       \* number of ingestDocument calls made so far
    backup,         \* what exportKnowledgeBase returned last
    lastResult,     \* what the most recent DocumentProcessor call handed back
    detectInput,    \* the text given to detectPrimaryLanguage
    detectedLang,   \* what detectPrimaryLanguage returned
    segmentInput,   \* the content given to the extractors of processContent
    segments,       \* what the extractors returned
    conversations,  \* conversationLogger.conversations: the user ids it holds
    analyticsData,  \* conversationLogger.analyticsData
    nLogged,        \* number of logHandoffRequest calls made so far
    integrationObjects, \* the integration objects registerIntegration created
    integrations,   \* this.integrations: the object each system id is set to
    activeConnections,  \* this.activeConnections
    connecting,     \* connectToERP calls suspended at their await
    lastStatus      \* what getIntegrationStatus returned last

queueVars == << handoffQueue, inflight, nCalls, lastOutcome >>

analysisVars == << message, recentContext, assessment, compared, similarityReturned >>

knowledgeVars ==
    << extractedKnowledge, multilingualIndex, ingesting, nIngests, backup, lastResult >>

detectVars == << detectInput, detectedLang >>

segmentVars == << segmentInput, segments >>

documentVars == << knowledgeVars, detectVars, segmentVars >>

loggerVars == << conversations, analyticsData, nLogged >>

erpVars == << integrationObjects, integrations, activeConnections, connecting, lastStatus >>

vars ==
    << handoffQueue, inflight, nCalls, lastOutcome, message, recentContext, assessment,
       compared, similarityReturned,
       extractedKnowledge, multilingualIndex, ingesting, nIngests, backup, lastResult,
       detectInput, detectedLang, segmentInput, segments, conversations, analyticsData,
       nLogged,
       integrationObjects, integrations, activeConnections, connecting, lastStatus >>

NoResult == [kind |-> "none"]

\* the DocumentProcessor after its constructor
InitKnowledge ==
    /\ extractedKnowledge = << >>
    /\ multilingualIndex = << >>
    /\ ingesting = << >>
    /\ nIngests = 0
    /\ backup = NoResult
    /\ lastResult = NoResult

\* no call of detectPrimaryLanguage
NoDetection ==
    /\ detectInput = << >>
    /\ detectedLang = NoResult

\* no call of the extractors on their own
NoSegmentation ==
    /\ segmentInput = << >>
    /\ segments = NoResult

\* no call of calculateSimilarity on its own
NoComparison ==
    /\ compared = << >>
    /\ similarityReturned = NoResult

\* the number 0
Zero == [kind |-> "number", num |-> 0, den |-> 1]

\* the ConversationLogger after its constructor
InitLogger ==
    /\ conversations = { }
    /\ analyticsData = [totalConversations |-> 0, handoffRate |-> Zero]
    /\ nLogged = 0

\* the ERPIntegrationFramework after its constructor
InitERP ==
    /\ integrationObjects = << >>
    /\ integrations = << >>
    /\ activeConnections = { }
    /\ connecting = << >>
    /\ lastStatus = NoResult

(***************************************************************************)
(* HumanHandoffManager: the escalation analyser                            *)
(***************************************************************************)
complexityTriggers ==
    << << "m", "u", "l", "t", "i", "p", "l", "e" >>,  \* 'multiple'
       << "v", "a", "r", "i", "o", "u", "s" >>,  \* 'various'
       << "d", "i", "f", "f", "e", "r", "e", "n", "t" >>,  \* 'different'
       << "c", "o", "m", "p", "l", "e", "x" >>,  \* 'complex'
       << "c", "o", "m", "p", "l", "i", "c", "a", "t", "e", "d" >>,  \* 'complicated'
       << "s", "e", "v", "e", "r", "a", "l" >>,  \* 'several'
       << "m", "a", "n", "y" >>,  \* 'many'
       << "n", "u", "m", "e", "r", "o", "u", "s" >>,  \* 'numerous'
       << "d", "e", "t", "a", "i", "l", "e", "d" >>,  \* 'detailed'
       << "s", "p", "e", "c", "i", "f", "i", "c" >> >>  \* 'specific'

frustrationTriggers ==
    << << "f", "r", "u", "s", "t", "r", "a", "t", "e", "d" >>,  \* 'frustrated'
       << "a", "n", "n", "o", "y", "e", "d" >>,  \* 'annoyed'
       << "a", "n", "g", "r", "y" >>,  \* 'angry'
       << "u", "p", "s", "e", "t" >>,  \* 'upset'
       << "d", "i", "s", "a", "p", "p", "o", "i", "n", "t", "e", "d" >>,  \* 'disappointed'
       << "n", "o", "t", " ", "w", "o", "r", "k", "i", "n", "g" >>,  \* 'not working'
       << "d", "o", "e", "s", "n", "'", "t", " ", "w", "o", "r", "k" >>,  \* "doesn't work"
       << "p", "r", "o", "b", "l", "e", "m" >>,  \* 'problem'
       << "i", "s", "s", "u", "e" >>,  \* 'issue'
       << "e", "r", "r", "o", "r" >>,  \* 'error'
       << "h", "e", "l", "p", " ", "m", "e" >>,  \* 'help me'
       << "u", "r", "g", "e", "n", "t" >>,  \* 'urgent'
       << "i", "m", "m", "e", "d", "i", "a", "t", "e", "l", "y" >>,  \* 'immediately'
       << "a", "s", "a", "p" >> >>  \* 'asap'

\* this.escalationRules, in the order setupEscalationRules registers the rules
escalationRules ==
    << [ name |-> "complex_financial",
         triggers |->
             << << "l", "o", "a", "n" >>,  \* 'loan'
                << "E", "M", "I" >>,  \* 'EMI'
                << "r", "e", "f", "u", "n", "d" >>,  \* 'refund'
                << "s", "c", "h", "o", "l", "a", "r", "s", "h", "i", "p", " ", "e", "l", "i", "g", "i", "b", "i", "l", "i", "t", "y" >>,  \* 'scholarship eligibility'
                << "f", "i", "n", "a", "n", "c", "i", "a", "l", " ", "a", "i", "d", " ", "c", "a", "l", "c", "u", "l", "a", "t", "i", "o", "n" >> >>,  \* 'financial aid calculation'
         priority |-> "high",
         department |-> "finance",
         estimatedWaitTime |-> Num(300) ],
       [ name |-> "technical_issues",
         triggers |->
             << << "p", "o", "r", "t", "a", "l", " ", "n", "o", "t", " ", "w", "o", "r", "k", "i", "n", "g" >>,  \* 'portal not working'
                << "l", "o", "g", "i", "n", " ", "f", "a", "i", "l", "e", "d" >>,  \* 'login failed'
                << "p", "a", "y", "m", "e", "n", "t", " ", "e", "r", "r", "o", "r" >>,  \* 'payment error'
                << "t", "e", "c", "h", "n", "i", "c", "a", "l", " ", "p", "r", "o", "b", "l", "e", "m" >> >>,  \* 'technical problem'
         priority |-> "urgent",
         department |-> "IT",
         estimatedWaitTime |-> Num(180) ],
       [ name |-> "academic_complex",
         triggers |->
             << << "c", "o", "u", "r", "s", "e", " ", "c", "h", "a", "n", "g", "e" >>,  \* 'course change'
                << "c", "r", "e", "d", "i", "t", " ", "t", "r", "a", "n", "s", "f", "e", "r" >>,  \* 'credit transfer'
                << "g", "r", "a", "d", "e", " ", "a", "p", "p", "e", "a", "l" >>,  \* 'grade appeal'
                << "a", "c", "a", "d", "e", "m", "i", "c", " ", "c", "a", "l", "e", "n", "d", "a", "r" >> >>,  \* 'academic calendar'
         priority |-> "medium",
         department |-> "academic",
         estimatedWaitTime |-> Num(600) ],
       [ name |-> "admission_complex",
         triggers |->
             << << "d", "o", "c", "u", "m", "e", "n", "t", " ", "v", "e", "r", "i", "f", "i", "c", "a", "t", "i", "o", "n" >>,  \* 'document verification'
                << "e", "l", "i", "g", "i", "b", "i", "l", "i", "t", "y", " ", "q", "u", "e", "r", "y" >>,  \* 'eligibility query'
                << "a", "d", "m", "i", "s", "s", "i", "o", "n", " ", "a", "p", "p", "e", "a", "l" >> >>,  \* 'admission appeal'
         priority |-> "high",
         department |-> "admissions",
         estimatedWaitTime |-> Num(450) ],
       [ name |-> "complaints",
         triggers |->
             << << "c", "o", "m", "p", "l", "a", "i", "n", "t" >>,  \* 'complaint'
                << "u", "n", "s", "a", "t", "i", "s", "f", "i", "e", "d" >>,  \* 'unsatisfied'
                << "p", "r", "o", "b", "l", "e", "m", " ", "w", "i", "t", "h" >>,  \* 'problem with'
                << "i", "s", "s", "u", "e", " ", "w", "i", "t", "h" >> >>,  \* 'issue with'
         priority |-> "medium",
         department |-> "admin",
         estimatedWaitTime |-> Num(720) ] >>

UpperCase ==
    << "A", "B", "C", "D", "E", "F", "G", "H", "I", "J", "K", "L", "M",
       "N", "O", "P", "Q", "R", "S", "T", "U", "V", "W", "X", "Y", "Z" >>

LowerCase ==
    << "a", "b", "c", "d", "e", "f", "g", "h", "i", "j", "k", "l", "m",
       "n", "o", "p", "q", "r", "s", "t", "u", "v", "w", "x", "y", "z" >>

UpperCaseLetters == { UpperCase[k] : k \in 1..Len(UpperCase) }

\* the lower-case letter of each upper-case letter
LowerOf ==
    [ c \in UpperCaseLetters |->
        LowerCase[CHOOSE k \in 1..Len(UpperCase) : UpperCase[k] = c] ]

\* String.prototype.toLowerCase
toLowerCase(s) ==
    [ i \in 1..Len(s) |-> IF s[i] \in UpperCaseLetters THEN LowerOf[s[i]] ELSE s[i] ]

\* String.prototype.includes
includes(s, t) ==
    \E i \in 0..(Len(s) - Len(t)) : \A k \in 1..Len(t) : s[i + k] = t[k]

\* the characters \s matches
WhiteSpace == { " ", "\t", "\n", "\r" }

\* the words of s from its character i on, word being the characters of the
\* current word read so far: a run of white space ends one word
RECURSIVE SplitFrom(_, _, _)
SplitFrom(s, i, word) ==
    IF i > Len(s) THEN << word >>
    ELSE IF s[i] \in WhiteSpace
         THEN IF i > 1 /\ s[i - 1] \in WhiteSpace
              THEN SplitFrom(s, i + 1, word)
              ELSE << word >> \o SplitFrom(s, i + 1, << >>)
         ELSE SplitFrom(s, i + 1, Append(word, s[i]))

\* s.split(/\s+/)
split(s) == SplitFrom(s, 1, << >>)

\* intersection.length / union.length, as the pair of the two lengths
calculateSimilarity(msg1, msg2) ==
    LET words1 == split(toLowerCase(msg1))
        words2 == split(toLowerCase(msg2))
        InWords2(word) == \E k \in 1..Len(words2) : words2[k] = word
        intersection == SelectSeq(words1, InWords2)
        union == { words1[k] : k \in 1..Len(words1) } \cup { words2[k] : k \in 1..Len(words2) }
    IN [ num |-> Len(intersection), den |-> Cardinality(union) ]

\* similarity > 0.7; the quotient of two small integers is above the double
\* 0.7 exactly when it is above 7/10
Above07(similarity) == 10 * similarity.num > 7 * similarity.den

\* triggers.forEach(trigger => { if (messageLower.includes(trigger)) signal += 1 })
RECURSIVE CountIncluded(_, _)
CountIncluded(messageLower, triggers) ==
    IF triggers = << >> THEN 0
    ELSE (IF includes(messageLower, Head(triggers)) THEN 1 ELSE 0)
         + CountIncluded(messageLower, Tail(triggers))

RepetitionBonus_PerMessage(msg, context) ==
    IF context.kind = "array" /\ Len(context.turns) > 3
    THEN LET recentMessages == SubSeq(context.turns, Len(context.turns) - 2, Len(context.turns))
             IsSimilar(turn) == Above07(calculateSimilarity(turn.message, msg))
             similarQueries == SelectSeq(recentMessages, IsSimilar)
         IN IF Len(similarQueries) >= 2 THEN 2 * Len(similarQueries) ELSE 0
    ELSE 0

\* the check of the conversation history for repeated queries: what it adds
\* to escalationSignals.frustration
RepetitionBonus(msg, context) ==
    IF context.kind = "array" /\ Len(context.turns) > 3
    THEN LET recentMessages == SubSeq(context.turns, Len(context.turns) - 2, Len(context.turns))
             IsSimilar(turn) == Above07(calculateSimilarity(turn.message, msg))
             similarQueries == SelectSeq(recentMessages, IsSimilar)
         IN IF Len(similarQueries) >= 2 THEN 2 ELSE 0
    ELSE 0

\* rule.triggers.some(trigger => messageLower.includes(trigger.toLowerCase()))
hasMatch(rule, messageLower) ==
    \E k \in 1..Len(rule.triggers) : includes(messageLower, toLowerCase(rule.triggers[k]))

\* { name: ruleName, ...rule }
MatchedRule(rule) ==
    [ kind |-> "object",
      name |-> rule.name,
      triggers |-> rule.triggers,
      priority |-> rule.priority,
      department |-> rule.department,
      estimatedWaitTime |-> rule.estimatedWaitTime ]

RECURSIVE FindMatchedRule_Last(_, _)
FindMatchedRule_Last(rules, messageLower) ==
    IF rules = << >> THEN Null
    ELSE IF hasMatch(rules[Len(rules)], messageLower)
         THEN MatchedRule(rules[Len(rules)])
         ELSE FindMatchedRule_Last(SubSeq(rules, 1, Len(rules) - 1), messageLower)

\* for (const [ruleName, rule] of this.escalationRules) { ... break; }
RECURSIVE FindMatchedRule(_, _)
FindMatchedRule(rules, messageLower) ==
    IF rules = << >> THEN Null
    ELSE IF hasMatch(Head(rules), messageLower)
         THEN MatchedRule(Head(rules))
         ELSE FindMatchedRule(Tail(rules), messageLower)

TotalScore_WeightsSwapped(signals) ==
    signals.complexity * 4 + signals.frustration * 3
        + signals.specificity * 2 + signals.urgency * 1

\* the score in tenths: complexity * 0.3 + frustration * 0.4 + specificity * 0.2
\* + urgency * 0.1.  For the counts a message can reach the double sum is >= 2
\* (>= 4) exactly when the tenths are >= 20 (>= 40).
TotalScore(signals) ==
    signals.complexity * 3 + signals.frustration * 4
        + signals.specificity * 2 + signals.urgency * 1

Bool(b) == [kind |-> "boolean", value |-> b]

ShouldEscalate_ScoreOnly(totalScore, matchedRule) == Bool(totalScore >= 20)

\* totalScore >= 2 || matchedRule
ShouldEscalate(totalScore, matchedRule) ==
    IF totalScore >= 20 THEN Bool(TRUE) ELSE matchedRule

\* Math.min(totalScore / 5, 1), in hundredths
Confidence(totalScore) == IF 2 * totalScore < 100 THEN 2 * totalScore ELSE 100

getEscalationRecommendation_RuleOnly(score, matchedRule) ==
    IF matchedRule.kind = "object"
    THEN [ kind |-> "object",
           priority |-> matchedRule.priority,
           department |-> matchedRule.department,
           estimatedWaitTime |-> matchedRule.estimatedWaitTime,
           reason |-> << "Matched rule: ", matchedRule.name >> ]
    ELSE Null

getEscalationRecommendation_Above2(score, matchedRule) ==
    IF matchedRule.kind = "object"
    THEN [ kind |-> "object",
           priority |-> matchedRule.priority,
           department |-> matchedRule.department,
           estimatedWaitTime |-> matchedRule.estimatedWaitTime,
           reason |-> << "Matched rule: ", matchedRule.name >> ]
    ELSE IF score >= 40
    THEN [ kind |-> "object",
           priority |-> "urgent",
           department |-> "general",
           estimatedWaitTime |-> Num(180),
           reason |-> << "High complexity/frustration detected" >> ]
    ELSE IF score > 20
    THEN [ kind |-> "object",
           priority |-> "medium",
           department |-> "general",
           estimatedWaitTime |-> Num(600),
           reason |-> << "Moderate escalation signals" >> ]
    ELSE Null

getEscalationRecommendation(score, matchedRule) ==
    IF matchedRule.kind = "object"
    THEN [ kind |-> "object",
           priority |-> matchedRule.priority,
           department |-> matchedRule.department,
           estimatedWaitTime |-> matchedRule.estimatedWaitTime,
           reason |-> << "Matched rule: ", matchedRule.name >> ]
    ELSE IF score >= 40
    THEN [ kind |-> "object",
           priority |-> "urgent",
           department |-> "general",
           estimatedWaitTime |-> Num(180),
           reason |-> << "High complexity/frustration detected" >> ]
    ELSE IF score >= 20
    THEN [ kind |-> "object",
           priority |-> "medium",
           department |-> "general",
           estimatedWaitTime |-> Num(600),
           reason |-> << "Moderate escalation signals" >> ]
    ELSE Null

analyzeEscalationNeed(msg, context) ==
    LET messageLower == toLowerCase(msg)
        escalationSignals ==
            [ complexity |-> CountIncluded(messageLower, complexityTriggers),
                    frustration |-> CountIncluded(messageLower, frustrationTriggers)
                              + RepetitionBonus(msg, context),
              specificity |-> 0,
              urgency |-> 0 ]
        matchedRule == FindMatchedRule(escalationRules, messageLower)
        totalScore == TotalScore(escalationSignals)
    IN [ kind |-> "assessment",
         shouldEscalate |-> ShouldEscalate(totalScore, matchedRule),
         confidence |-> Confidence(totalScore),
         matchedRule |-> matchedRule,
         signals |-> escalationSignals,
         recommendation |-> getEscalationRecommendation(totalScore, matchedRule) ]

NoAssessment == [kind |-> "none"]

\* the pieces of text the analysed messages are put together from
Fragments ==
    << << "a", "n", "g", "r", "y", " ", "u", "p", "s", "e", "t", " ", "a", "n", "n", "o", "y", "e", "d", " ", "e", "r", "r", "o", "r", " ", "i", "s", "s", "u", "e" >>,  \* 'angry upset annoyed error issue'
       << "a", "s", "a", "p", " ", "u", "r", "g", "e", "n", "t", " ", "p", "r", "o", "b", "l", "e", "m", " ", "h", "e", "l", "p", " ", "m", "e", " ", "i", "m", "m", "e", "d", "i", "a", "t", "e", "l", "y" >>,  \* 'asap urgent problem help me immediately'
       << "m", "a", "n", "y", " ", "c", "o", "m", "p", "l", "e", "x", " ", "v", "a", "r", "i", "o", "u", "s", " ", "s", "e", "v", "e", "r", "a", "l" >>,  \* 'many complex various several'
       << "n", "o", "t", " ", "w", "o", "r", "k", "i", "n", "g", " ", "f", "r", "u", "s", "t", "r", "a", "t", "e", "d" >>,  \* 'not working frustrated'
       << "L", "o", "a", "n" >>,  \* 'Loan'
       << "a", "c", "a", "d", "e", "m", "i", "c", " ", "c", "a", "l", "e", "n", "d", "a", "r" >>,  \* 'academic calendar'
       << "g", "r", "a", "d", "e", " ", "a", "p", "p", "e", "a", "l" >>,  \* 'grade appeal'
       << "a", "d", "m", "i", "s", "s", "i", "o", "n", " ", "a", "p", "p", "e", "a", "l" >>,  \* 'admission appeal'
       << "c", "o", "m", "p", "l", "a", "i", "n", "t" >>,  \* 'complaint'
       << "t", "e", "c", "h", "n", "i", "c", "a", "l", " ", "p", "r", "o", "b", "l", "e", "m", " ", "w", "i", "t", "h" >> >>  \* 'technical problem with'

\* the fragments whose numbers are in chosen, in the order of their numbers,
\* with one blank between two fragments
RECURSIVE Join(_)
Join(chosen) ==
    IF chosen = {} THEN << >>
    ELSE LET last == CHOOSE k \in chosen : \A other \in chosen : other <= k
             before == Join(chosen \ {last})
         IN IF before = << >> THEN Fragments[last]
            ELSE before \o << " " >> \o Fragments[last]

\* 'This portal is not working, I need help immediately'
PortalMessage ==
    << "T", "h", "i", "s", " ", "p", "o", "r", "t", "a", "l", " ", "i", "s", " ", "n", "o", "t", " ", "w", "o", "r", "k", "i", "n", "g", ",", " ", "I", " ", "n", "e", "e", "d", " ", "h", "e", "l", "p", " ", "i", "m", "m", "e", "d", "i", "a", "t", "e", "l", "y" >>

\* the messages that consist of just a trigger phrase of a rule
TriggerMessages ==
    UNION { { escalationRules[k].triggers[t] : t \in 1..Len(escalationRules[k].triggers) } :
              k \in 1..Len(escalationRules) }

\* the messages analysed
Messages ==
    { Join(chosen) : chosen \in
        { c \in SUBSET (1..Len(Fragments)) : Cardinality(c) <= MaxFragments } }
    \cup { PortalMessage }
    \cup TriggerMessages

\* an earlier turn of the conversation: the message again, or a fixed other
\* message (which shares all, some or none of its words with the message)
EarlierTurn(msg, variant) ==
    [ message |-> IF variant = "same" THEN msg ELSE Fragments[1] ]

Variants == { "same", "other" }

\* the contexts a message is analysed with
ContextsOf(msg) ==
    { Undefined } \cup
    { Context([ i \in 1..Len(variants) |-> EarlierTurn(msg, variants[i]) ]) :
        variants \in UNION { [1..n -> Variants] : n \in 0..MaxContext } }

(***************************************************************************)
(* ConversationLogger.  A number is the quotient of two integers in lowest *)
(* terms, or one of the doubles Infinity, -Infinity and NaN; the rounding  *)
(* of a quotient to a double is left out.  Of a conversation only the user *)
(* id is kept: its messages and the language and intent counts are written *)
(* by logMessage and read by nothing modelled here.                        *)
(***************************************************************************)
Infinity == [kind |-> "Infinity"]
MinusInfinity == [kind |-> "-Infinity"]
NaN == [kind |-> "NaN"]

RECURSIVE GCD(_, _)
GCD(a, b) == IF b = 0 THEN a ELSE GCD(b, a % b)

\* the quotient num / den, den > 0, in lowest terms
Quotient(num, den) ==
    LET Lowest(d) == [kind |-> "number", num |-> num \div d, den |-> den \div d]
    IN Lowest(GCD(IF num < 0 THEN -num ELSE num, den))

\* x * n for an integer n
Times(x, n) ==
    CASE x.kind = "number" -> Quotient(x.num * n, x.den)
      [] x.kind = "NaN" -> NaN
      [] OTHER -> IF n = 0 THEN NaN
                  ELSE IF (n > 0) = (x.kind = "Infinity") THEN Infinity
                  ELSE MinusInfinity

\* x + 1
PlusOne(x) == IF x.kind = "number" THEN Quotient(x.num + x.den, x.den) ELSE x

\* x / n for an integer n >= 0; a division by 0 gives Infinity, -Infinity or NaN
Over(x, n) ==
    CASE x.kind # "number" -> x
      [] x.kind = "number" /\ n > 0 -> Quotient(x.num, x.den * n)
      [] x.kind = "number" /\ n = 0 /\ x.num > 0 -> Infinity
      [] x.kind = "number" /\ n = 0 /\ x.num < 0 -> MinusInfinity
      [] OTHER -> NaN

\* analyticsData after logHandoffRequest:
\* handoffRate = (handoffRate * (totalConversations - 1) + 1) / totalConversations
logHandoffRequest(data) ==
    [ data EXCEPT !.handoffRate =
        Over(PlusOne(Times(data.handoffRate, data.totalConversations - 1)),
             data.totalConversations) ]

(***************************************************************************)
(* HumanHandoffManager: the handoff queue                                  *)
(***************************************************************************)
\* escalationInfo.recommendation?.priority
PriorityOf(escalationInfo) ==
    IF escalationInfo.recommendation.kind = "object"
    THEN escalationInfo.recommendation.priority
    ELSE "undefined"

\* const priorityOrder = { urgent: 3, high: 2, medium: 1, low: 0 }
priorityOrder(p) ==
    CASE p = "urgent" -> 3
      [] p = "high" -> 2
      [] p = "medium" -> 1
      [] OTHER -> 0

\* priorityOrder[req.escalationInfo?.recommendation?.priority || 'low']
Weight(req) ==
    LET p == PriorityOf(req.escalationInfo)
    IN priorityOrder(IF p = "undefined" THEN "low" ELSE p)

\* the place of req among the already sorted requests s: Array.prototype.sort
\* is stable, so req goes after every request the comparator does not put
\* behind it
RECURSIVE InsertByPriority(_, _)
InsertByPriority(req, s) ==
    IF s = << >> THEN << req >>
    ELSE IF Weight(Head(s)) - Weight(req) >= 0
         THEN << Head(s) >> \o InsertByPriority(req, Tail(s))
         ELSE << req >> \o s

\* .sort((a, b) => priorityOrder[b...] - priorityOrder[a...])
RECURSIVE SortByPriority(_)
SortByPriority(s) ==
    IF s = << >> THEN << >>
    ELSE InsertByPriority(s[Len(s)], SortByPriority(SubSeq(s, 1, Len(s) - 1)))

IsPending(req) == req.status = "pending"

calculateQueuePosition_NoFilter(queue, priority) ==
    LET queueArray == SortByPriority(queue)
    IN Len(queueArray) + 1

calculateQueuePosition(queue, priority) ==
    LET queueArray == SortByPriority(SelectSeq(queue, IsPending))
    IN Len(queueArray) + 1

\* this.handoffQueue.set(handoffId, handoffRequest)
MapSet(queue, req) ==
    IF \E i \in 1..Len(queue) : queue[i].id = req.id
    THEN [i \in 1..Len(queue) |-> IF queue[i].id = req.id THEN req ELSE queue[i]]
    ELSE Append(queue, req)

\* the suspended calls without call i
Without(calls, i) == SubSeq(calls, 1, i - 1) \o SubSeq(calls, i + 1, Len(calls))

\* x || fallback, for the values a recommendation field can hold
OrElse(x, fallback) ==
    IF x.kind = "undefined" \/ (x.kind = "number" /\ x.value = 0) THEN fallback ELSE x

\* escalationInfo.recommendation?.estimatedWaitTime
WaitOf(escalationInfo) ==
    IF escalationInfo.recommendation.kind = "object"
    THEN escalationInfo.recommendation.estimatedWaitTime
    ELSE Undefined

\* escalationInfo.recommendation?.department || 'general'
DepartmentOf(escalationInfo) ==
    IF escalationInfo.recommendation.kind = "object"
    THEN escalationInfo.recommendation.department
    ELSE "general"

LanguageOf_First(context) ==
    IF context.turns = << >> THEN "en"
    ELSE LET l == context.turns[1].language
         IN IF l = "undefined" \/ l = "" THEN "en" ELSE l

\* context[context.length - 1]?.language || 'en'
LanguageOf(context) ==
    IF context.turns = << >> THEN "en"
    ELSE LET l == context.turns[Len(context.turns)].language
         IN IF l = "undefined" \/ l = "" THEN "en" ELSE l

InitialStatus_Assigned == "assigned"

\* status: 'pending'
InitialStatus == "pending"

\* the object literal of initiateHandoff; oid is the identity of the object
handoffRequest(oid, handoffId, queue, context, escalationInfo) ==
    [ oid |-> oid,
      id |-> handoffId,
      context |-> context,
      escalationInfo |-> escalationInfo,
      status |-> InitialStatus,
      queuePosition |-> calculateQueuePosition(queue, PriorityOf(escalationInfo)),
      estimatedWaitTime |-> OrElse(WaitOf(escalationInfo), Num(600)),
      department |-> DepartmentOf(escalationInfo),
      language |-> LanguageOf(context) ]

\* Math.ceil(n / 60) for a number n >= 0
CeilMinutes(n) == (n + 59) \div 60

\* messages[handoffRequest.language] || messages.en
generateHandoffConfirmation(req) ==
    [ template |-> IF req.language \in {"en", "hi", "mr"} THEN req.language ELSE "en",
      queuePosition |-> req.queuePosition,
      minutes |-> CeilMinutes(req.estimatedWaitTime.value),
      reference |-> req.id ]

\* building a template string throws a TypeError when estimatedWaitTime / 60
\* mixes a BigInt with a number
ConfirmationThrows(req) == req.estimatedWaitTime.kind # "number"

NoOutcome == [kind |-> "none"]

Rejected(oid) == [kind |-> "rejected", oid |-> oid]

Fulfilled(req) ==
    [ kind |-> "fulfilled",
      oid |-> req.oid,
      success |-> TRUE,
      handoffId |-> req.id,
      queuePosition |-> req.queuePosition,
      estimatedWaitTime |-> req.estimatedWaitTime,
      confirmationMessage |-> generateHandoffConfirmation(req) ]

\* the manager after its constructor
InitQueue ==
    /\ handoffQueue = << >>
    /\ inflight = << >>
    /\ nCalls = 0
    /\ lastOutcome = NoOutcome

Init ==
    /\ InitQueue
    /\ message = << >>
    /\ recentContext = Undefined
    /\ assessment = NoAssessment
    /\ InitKnowledge
    /\ NoDetection
    /\ NoSegmentation
    /\ NoComparison
    /\ InitLogger
    /\ InitERP

\* initiateHandoff up to its await: the id, the request, the insertion and
\* the call of logHandoffRequest all run before the caller gets control back
InitiateHandoff(handoffId, context, escalationInfo) ==
    /\ escalationInfo.kind = "object"
    /\ context.kind = "array"
    /\ LET req == handoffRequest(nCalls + 1, handoffId, handoffQueue, context, escalationInfo)
       IN /\ handoffQueue' = MapSet(handoffQueue, req)
          /\ inflight' = Append(inflight, req)
    /\ nCalls' = nCalls + 1
    /\ analyticsData' = logHandoffRequest(analyticsData)
    /\ nLogged' = nLogged + 1
    /\ UNCHANGED << lastOutcome, conversations, analysisVars, documentVars, erpVars >>

\* initiateHandoff with an escalationInfo or a context that is undefined: the
\* object literal throws a TypeError (line 216 or 219) before the insertion
InitiateHandoffThrows(handoffId, context, escalationInfo) ==
    /\ escalationInfo.kind = "undefined" \/ context.kind = "undefined"
    /\ nCalls' = nCalls + 1
    /\ lastOutcome' = Rejected(nCalls + 1)
    /\ UNCHANGED << handoffQueue, inflight, analysisVars, documentVars, loggerVars, erpVars >>

\* the continuation after the await: notifyAgents, the confirmation, return
InitiateHandoffReturns ==
    /\ inflight # << >>
    /\ ~ConfirmationThrows(Head(inflight))
    /\ lastOutcome' = Fulfilled(Head(inflight))
    /\ inflight' = Tail(inflight)
    /\ UNCHANGED << handoffQueue, nCalls, analysisVars, documentVars, loggerVars, erpVars >>

\* the continuation after the await when generateHandoffConfirmation throws:
\* the promise rejects, nothing is undone
InitiateHandoffRejects ==
    /\ inflight # << >>
    /\ ConfirmationThrows(Head(inflight))
    /\ lastOutcome' = Rejected(Head(inflight).oid)
    /\ inflight' = Tail(inflight)
    /\ UNCHANGED << handoffQueue, nCalls, analysisVars, documentVars, loggerVars, erpVars >>

(***************************************************************************)
(* HumanHandoffManager: queue statistics                                   *)
(***************************************************************************)
RECURSIVE TotalWaitTime(_)
\* pendingRequests.reduce((sum, req) => sum + req.estimatedWaitTime, 0)
TotalWaitTime(requests) ==
    IF requests = << >> THEN 0
    ELSE TotalWaitTime(SubSeq(requests, 1, Len(requests) - 1))
         + requests[Len(requests)].estimatedWaitTime.value

\* sum + req.estimatedWaitTime throws a TypeError on a BigInt
AverageThrows(queue) ==
    \E i \in 1..Len(queue) :
        IsPending(queue[i]) /\ queue[i].estimatedWaitTime.kind # "number"

\* Math.ceil(totalWaitTime / pendingRequests.length / 60)
calculateAverageWaitTime(queue) ==
    LET pendingRequests == SelectSeq(queue, IsPending)
    IN IF Len(pendingRequests) = 0 THEN 0
       ELSE (TotalWaitTime(pendingRequests) + 60 * Len(pendingRequests) - 1)
                \div (60 * Len(pendingRequests))

\* breakdown[dept] = (breakdown[dept] || 0) + 1, over the requests
getDepartmentBreakdown(requests) ==
    [ dept \in { requests[i].department : i \in 1..Len(requests) } |->
        Cardinality({ i \in 1..Len(requests) : requests[i].department = dept }) ]

QueueStatus_AllRequests(queue) ==
    [ kind |-> "queueStatus",
      totalInQueue |-> Len(queue),
      averageWaitTime |-> calculateAverageWaitTime(queue),
      departmentBreakdown |-> getDepartmentBreakdown(queue) ]

\* the object getQueueStatus returns
QueueStatus(queue) ==
    LET pendingRequests == SelectSeq(queue, IsPending)
    IN [ kind |-> "queueStatus",
         totalInQueue |-> Len(pendingRequests),
         averageWaitTime |-> calculateAverageWaitTime(queue),
         departmentBreakdown |-> getDepartmentBreakdown(pendingRequests) ]

Threw == [kind |-> "threw"]

getQueueStatus ==
    /\ ~AverageThrows(handoffQueue)
    /\ lastOutcome' = QueueStatus(handoffQueue)
    /\ UNCHANGED << handoffQueue, inflight, nCalls, analysisVars, documentVars, loggerVars, erpVars >>

getQueueStatusThrows ==
    /\ AverageThrows(handoffQueue)
    /\ lastOutcome' = Threw
    /\ UNCHANGED << handoffQueue, inflight, nCalls, analysisVars, documentVars, loggerVars, erpVars >>

(***************************************************************************)
(* The status transitions; their triggers are outside the manager          *)
(***************************************************************************)
SetStatus(i, from, to) ==
    /\ i \in 1..Len(handoffQueue)
    /\ handoffQueue[i].status = from
    /\ handoffQueue' = [handoffQueue EXCEPT ![i].status = to]
    /\ UNCHANGED << inflight, nCalls, lastOutcome, analysisVars, documentVars, loggerVars, erpVars >>

\* an agent accepts the request
Assign == \E i \in 1..Len(handoffQueue) : SetStatus(i, "pending", "assigned")

\* the caller cancels or times out
Abandon == \E i \in 1..Len(handoffQueue) : SetStatus(i, "pending", "abandoned")

\* the agent closes the request
Resolve == \E i \in 1..Len(handoffQueue) : SetStatus(i, "assigned", "resolved")

\* `HO_${Date.now()}_${Math.random().toString(36).substr(2, 9)}`: the clock
\* reading and the random suffix are the environment's choice, so the string
\* is one no stored request has or, when both repeat, the id of a stored
\* request.  Ids are only compared, so the new ones are numbered in order.
generateHandoffId(queue) ==
    { queue[i].id : i \in 1..Len(queue) } \cup { Len(queue) + 1 }

\* one more of at most maxCalls calls of initiateHandoff
Enqueue(maxCalls) ==
    /\ nCalls < maxCalls
    /\ \E handoffId \in generateHandoffId(handoffQueue), args \in Arguments :
          \/ InitiateHandoff(handoffId, args.context, args.escalationInfo)
          \/ InitiateHandoffThrows(handoffId, args.context, args.escalationInfo)

Next ==
    \/ Enqueue(MaxCalls)
    \/ InitiateHandoffReturns
    \/ InitiateHandoffRejects
    \/ getQueueStatus
    \/ getQueueStatusThrows
    \/ Assign
    \/ Abandon
    \/ Resolve

Spec == Init /\ [][Next]_vars

\* concurrent initiateHandoff calls and nothing else
NextConcurrent ==
    \/ Enqueue(MaxConcurrentCalls)
    \/ InitiateHandoffReturns
    \/ InitiateHandoffRejects

SpecConcurrent == Init /\ [][NextConcurrent]_vars

(***************************************************************************)
(* The caller of initiateHandoff after the call.  The request literal      *)
(* holds the context array and the assessment object the caller passed     *)
(* (context: context, escalationInfo: escalationInfo), not copies, so what *)
(* the caller does to its array or object is done to the ones in the       *)
(* request of that call, in the queue and in the suspended call alike.     *)
(***************************************************************************)
\* the requests with the context of the request of call oid replaced
WithContext(requests, oid, context) ==
    [ i \in 1..Len(requests) |->
        IF requests[i].oid = oid THEN [requests[i] EXCEPT !.context = context]
        ELSE requests[i] ]

\* the requests with the recommendation of the assessment of call oid replaced
WithRecommendation(requests, oid, rec) ==
    [ i \in 1..Len(requests) |->
        IF requests[i].oid = oid
        THEN [requests[i] EXCEPT !.escalationInfo.recommendation = rec]
        ELSE requests[i] ]

\* the requests that hold the objects of call oid
HeldBy(oid) ==
    { handoffQueue[i] : i \in { k \in 1..Len(handoffQueue) : handoffQueue[k].oid = oid } }
    \cup { inflight[i] : i \in { k \in 1..Len(inflight) : inflight[k].oid = oid } }

\* the caller records the next turn of the conversation: context.push(turn)
CallerPushesTurn ==
    \E oid \in 1..nCalls : \E held \in HeldBy(oid) :
        /\ Len(held.context.turns) < MaxTurns
        /\ LET Pushed(context) ==
                   /\ handoffQueue' = WithContext(handoffQueue, oid, context)
                   /\ inflight' = WithContext(inflight, oid, context)
           IN Pushed(Context(Append(held.context.turns, Turn("en"))))
        /\ UNCHANGED << nCalls, lastOutcome, analysisVars, documentVars, loggerVars, erpVars >>

\* the recommendations a caller replaces the one of its assessment by
LaterRecommendations == { Recommendation("urgent", "IT", Num(180)), Null }

\* the caller reuses its assessment object: escalationInfo.recommendation = rec
CallerChangesAssessment ==
    \E oid \in 1..nCalls : \E held \in HeldBy(oid), rec \in LaterRecommendations :
        /\ held.escalationInfo.recommendation # rec
        /\ handoffQueue' = WithRecommendation(handoffQueue, oid, rec)
        /\ inflight' = WithRecommendation(inflight, oid, rec)
        /\ UNCHANGED << nCalls, lastOutcome, analysisVars, documentVars, loggerVars, erpVars >>

\* initiateHandoff calls and callers that go on using what they passed
NextCaller ==
    \/ Enqueue(MaxCalls)
    \/ InitiateHandoffReturns
    \/ InitiateHandoffRejects
    \/ CallerPushesTurn
    \/ CallerChangesAssessment

SpecCaller == Init /\ [][NextCaller]_vars

\* the users whose messages are logged
UserIds == 1..MaxUsers

\* logMessage(userId, message, metadata)
LogMessage ==
    /\ \E userId \in UserIds :
          IF userId \notin conversations
          THEN /\ conversations' = conversations \cup { userId }
               /\ analyticsData' =
                      [analyticsData EXCEPT !.totalConversations = @ + 1]
          ELSE UNCHANGED << conversations, analyticsData >>
    /\ UNCHANGED << nLogged, queueVars, analysisVars, documentVars, erpVars >>

\* logHandoffRequest(handoffRequest), called on the logger
LogHandoffRequest ==
    /\ nLogged < MaxLogged
    /\ nLogged' = nLogged + 1
    /\ analyticsData' = logHandoffRequest(analyticsData)
    /\ UNCHANGED << conversations, queueVars, analysisVars, documentVars, erpVars >>

NextLogger == LogMessage \/ LogHandoffRequest

SpecLogger == Init /\ [][NextLogger]_vars

(***************************************************************************)
(* ERPIntegrationFramework (src/unnamed/part_001).  An integration object  *)
(* is an element of integrationObjects and is named by its place there;    *)
(* the Map integrations is the sequence of its entries, each a system id   *)
(* with the place of the object it is set to.  A suspended connectToERP    *)
(* call holds the object it read from the Map when it was called.          *)
(***************************************************************************)
\* the system ids callers use
SystemIds == { "erp_a", "erp_b" }

\* config.type of the registrations: one type that connects over awaits, one
\* that is set up at once, one that connectToERP does not support
ConfigTypes == { "generic_rest", "csv_import", "json_api" }

\* this.integrations.has(systemId)
Registered(map, systemId) == \E i \in 1..Len(map) : map[i].id = systemId

\* the place of the object this.integrations.get(systemId) returns
ObjectOf(map, systemId) == map[CHOOSE i \in 1..Len(map) : map[i].id = systemId].object

\* this.integrations.set(systemId, integration)
IntegrationsSet(map, systemId, object) ==
    IF Registered(map, systemId)
    THEN [ i \in 1..Len(map) |->
             IF map[i].id = systemId THEN [id |-> systemId, object |-> object] ELSE map[i] ]
    ELSE Append(map, [id |-> systemId, object |-> object])

\* registerIntegration(systemId, config): a new object with status 'inactive'
\* is set under the id; activeConnections is not touched
RegisterIntegration ==
    /\ Len(integrationObjects) < MaxRegistrations
    /\ \E systemId \in SystemIds, type \in ConfigTypes :
          /\ integrationObjects' =
                 Append(integrationObjects,
                        [id |-> systemId, type |-> type, status |-> "inactive"])
          /\ integrations' =
                 IntegrationsSet(integrations, systemId, Len(integrationObjects) + 1)
    /\ UNCHANGED << activeConnections, connecting, lastStatus >>
    /\ UNCHANGED << queueVars, analysisVars, documentVars, loggerVars >>

\* connectToERP of an id that is not registered throws
ConnectToERPThrows ==
    /\ \E systemId \in SystemIds : ~Registered(integrations, systemId)
    /\ lastStatus' = [kind |-> "threw"]
    /\ UNCHANGED << integrationObjects, integrations, activeConnections, connecting >>
    /\ UNCHANGED << queueVars, analysisVars, documentVars, loggerVars >>

\* integration.status = 'active'; this.activeConnections.add(integration.id)
MarkActive(object) ==
    /\ integrationObjects' = [integrationObjects EXCEPT ![object].status = "active"]
    /\ activeConnections' = activeConnections \cup { integrationObjects[object].id }

\* the catch block of connectToERP: integration.status = 'error'
MarkError(object) ==
    /\ integrationObjects' = [integrationObjects EXCEPT ![object].status = "error"]
    /\ UNCHANGED activeConnections

\* connectToERP up to its first suspension, for the object of the id:
\* setupIframeComm and setupCSVImport run to their end, connectREST and
\* connectWebSocket wait for the network, any other type throws into the
\* catch block
ConnectToERP ==
    /\ \E systemId \in SystemIds :
          /\ Registered(integrations, systemId)
          /\ LET Start(object, type) ==
                     CASE type \in { "iframe_embed", "csv_import" } ->
                              /\ MarkActive(object)
                              /\ UNCHANGED connecting
                       [] type \in { "generic_rest", "websocket" } ->
                              /\ Len(connecting) < MaxConnecting
                              /\ connecting' = Append(connecting, object)
                              /\ UNCHANGED << integrationObjects, activeConnections >>
                       [] OTHER ->
                              /\ MarkError(object)
                              /\ UNCHANGED connecting
                 ForObject(object) == Start(object, integrationObjects[object].type)
             IN ForObject(ObjectOf(integrations, systemId))
    /\ UNCHANGED << integrations, lastStatus >>
    /\ UNCHANGED << queueVars, analysisVars, documentVars, loggerVars >>

\* the health check answers ok, or the socket opens: the object the call
\* holds becomes active
ConnectSucceeds ==
    /\ \E i \in 1..Len(connecting) :
          /\ MarkActive(connecting[i])
          /\ connecting' = Without(connecting, i)
    /\ UNCHANGED << integrations, lastStatus >>
    /\ UNCHANGED << queueVars, analysisVars, documentVars, loggerVars >>

\* the request fails: connectREST throws and the catch block of connectToERP
\* marks the object the call holds
ConnectFails ==
    /\ \E i \in 1..Len(connecting) :
          /\ MarkError(connecting[i])
          /\ connecting' = Without(connecting, i)
    /\ UNCHANGED << integrations, lastStatus >>
    /\ UNCHANGED << queueVars, analysisVars, documentVars, loggerVars >>

\* disconnectFromERP(systemId) of a registered id
DisconnectFromERP ==
    /\ \E systemId \in SystemIds :
          /\ Registered(integrations, systemId)
          /\ integrationObjects' =
                 [integrationObjects EXCEPT ![ObjectOf(integrations, systemId)].status = "inactive"]
          /\ activeConnections' = activeConnections \ { systemId }
    /\ UNCHANGED << integrations, connecting, lastStatus >>
    /\ UNCHANGED << queueVars, analysisVars, documentVars, loggerVars >>

\* the object getIntegrationStatus returns
IntegrationStatus(objects, map, active, systemId) ==
    IF Registered(map, systemId)
    THEN [ kind |-> "status",
           id |-> objects[ObjectOf(map, systemId)].id,
           status |-> objects[ObjectOf(map, systemId)].status,
           isActive |-> systemId \in active ]
    ELSE [ kind |-> "status", status |-> "not_found" ]

getIntegrationStatus ==
    /\ \E systemId \in SystemIds :
          lastStatus' = IntegrationStatus(integrationObjects, integrations,
                                          activeConnections, systemId)
    /\ UNCHANGED << integrationObjects, integrations, activeConnections, connecting >>
    /\ UNCHANGED << queueVars, analysisVars, documentVars, loggerVars >>

NextERP ==
    \/ RegisterIntegration
    \/ ConnectToERPThrows
    \/ ConnectToERP
    \/ ConnectSucceeds
    \/ ConnectFails
    \/ DisconnectFromERP
    \/ getIntegrationStatus

SpecERP == Init /\ [][NextERP]_vars

\* one call of analyzeEscalationNeed on a message and a context
InitAnalyze ==
    /\ InitQueue
    /\ message \in Messages
    /\ recentContext \in ContextsOf(message)
    /\ assessment = NoAssessment
    /\ InitKnowledge
    /\ NoDetection
    /\ NoSegmentation
    /\ NoComparison
    /\ InitLogger
    /\ InitERP

Analyze ==
    /\ assessment = NoAssessment
    /\ assessment' = analyzeEscalationNeed(message, recentContext)
    /\ UNCHANGED << message, recentContext, compared, similarityReturned, queueVars,
                    documentVars, loggerVars, erpVars >>

NextAnalyze == Analyze

SpecAnalyze == InitAnalyze /\ [][NextAnalyze]_vars

\* the words the compared messages are made of
Words ==
    << << "f", "e", "e" >>,   \* 'fee'
       << "F", "e", "e" >>,   \* 'Fee'
       << "d", "u", "e" >> >> \* 'due'

\* the words whose numbers are in chosen, in that order, one blank between two
RECURSIVE Sentence(_)
Sentence(chosen) ==
    IF chosen = << >> THEN << >>
    ELSE IF Len(chosen) = 1 THEN Words[chosen[1]]
    ELSE Words[Head(chosen)] \o << " " >> \o Sentence(Tail(chosen))

\* the messages compared
Sentences ==
    { Sentence(chosen) : chosen \in UNION { [1..n -> 1..Len(Words)] : n \in 1..MaxWords } }

\* one call of calculateSimilarity on two messages
InitSimilarity ==
    /\ InitQueue
    /\ message = << >>
    /\ recentContext = Undefined
    /\ assessment = NoAssessment
    /\ compared \in Sentences \X Sentences
    /\ similarityReturned = NoResult
    /\ InitKnowledge
    /\ NoDetection
    /\ NoSegmentation
    /\ InitLogger
    /\ InitERP

CalculateSimilarity ==
    /\ similarityReturned = NoResult
    /\ similarityReturned' =
           LET Returned(similarity) ==
                   [kind |-> "number", num |-> similarity.num, den |-> similarity.den]
           IN Returned(calculateSimilarity(compared[1], compared[2]))
    /\ UNCHANGED << message, recentContext, assessment, compared, queueVars, documentVars,
                    loggerVars, erpVars >>

NextSimilarity == CalculateSimilarity

SpecSimilarity == InitSimilarity /\ [][NextSimilarity]_vars

(***************************************************************************)
(* DocumentProcessor: language detection                                   *)
(***************************************************************************)
\* the patterns of detectPrimaryLanguage in the order Object.entries visits
\* them; each is one range of UTF-16 code units
patterns ==
    << [lang |-> "hi", from |-> 2304, to |-> 2431],  \* /[\u0900-\u097F]/g
       [lang |-> "mr", from |-> 2304, to |-> 2431],  \* /[\u0900-\u097F]/g
       [lang |-> "gu", from |-> 2688, to |-> 2815],  \* /[\u0A80-\u0AFF]/g
       [lang |-> "bn", from |-> 2432, to |-> 2559],  \* /[\u0980-\u09FF]/g
       [lang |-> "ta", from |-> 2944, to |-> 3071],  \* /[\u0B80-\u0BFF]/g
       [lang |-> "te", from |-> 3072, to |-> 3199],  \* /[\u0C00-\u0C7F]/g
       [lang |-> "kn", from |-> 3200, to |-> 3327] >>  \* /[\u0C80-\u0CFF]/g

\* (content.match(pattern) || []).length, content being a sequence of code units
MatchCount(content, pattern) ==
    Cardinality({ i \in 1..Len(content) :
                    content[i] >= pattern.from /\ content[i] <= pattern.to })

\* the forEach over the patterns from pattern k on
RECURSIVE DetectFrom(_, _, _, _)
DetectFrom(content, k, maxMatches, detectedLanguage) ==
    IF k > Len(patterns) THEN detectedLanguage
    ELSE LET matches == MatchCount(content, patterns[k])
         IN IF matches > maxMatches
            THEN DetectFrom(content, k + 1, matches, patterns[k].lang)
            ELSE DetectFrom(content, k + 1, maxMatches, detectedLanguage)

detectPrimaryLanguage(content) == DetectFrom(content, 1, 0, "en")

\* the code units texts are made of: a Latin letter and code units at the
\* ends of the seven ranges and next to them
CodeUnits == { 97, 2303, 2304, 2431, 2432, 2688, 2944, 3072, 3200, 3327, 3328 }

Texts == UNION { [1..n -> CodeUnits] : n \in 0..MaxText }

InitDetect ==
    /\ InitQueue
    /\ message = << >>
    /\ recentContext = Undefined
    /\ assessment = NoAssessment
    /\ InitKnowledge
    /\ detectInput \in Texts
    /\ detectedLang = NoResult
    /\ NoSegmentation
    /\ NoComparison
    /\ InitLogger
    /\ InitERP

DetectPrimaryLanguage ==
    /\ detectedLang = NoResult
    /\ detectedLang' = [kind |-> "language", code |-> detectPrimaryLanguage(detectInput)]
    /\ UNCHANGED << detectInput, queueVars, analysisVars, knowledgeVars, segmentVars,
                    loggerVars, erpVars >>

NextDetect == DetectPrimaryLanguage

SpecDetect == InitDetect /\ [][NextDetect]_vars

(***************************************************************************)
(* DocumentProcessor: ingestion                                            *)
(***************************************************************************)
supportedFormats ==
    << << "p", "d", "f" >>, << "d", "o", "c", "x" >>, << "t", "x", "t" >>, << "d", "o", "c" >> >>

\* file.name.split('.').pop().toLowerCase()
FileType(file) ==
    LET dots == { i \in 1..Len(file.name) : file.name[i] = "." }
        last == IF dots = {} THEN 0 ELSE CHOOSE i \in dots : \A j \in dots : j <= i
    IN toLowerCase(SubSeq(file.name, last + 1, Len(file.name)))

isValidFormat(file) ==
    \E k \in 1..Len(supportedFormats) : supportedFormats[k] = FileType(file)

\* a file whose text can be read
Readable(name, text) == [name |-> name, read |-> [kind |-> "text", text |-> text]]

\* a PDF file with the text of its pages
Pdf(name, pages) == [name |-> name, read |-> [kind |-> "pages", pages |-> pages]]

\* a file whose read (file.text(), file.arrayBuffer(), getDocument) rejects
Unreadable(name) == [name |-> name, read |-> [kind |-> "rejected"]]

DigitChars == << "0", "1", "2", "3", "4", "5", "6", "7", "8", "9" >>

\* fullText += `\n--- Page ${i} ---\n${pageText}\n` for the pages from i on
RECURSIVE PagesFrom(_, _)
PagesFrom(pages, i) ==
    IF i > Len(pages) THEN << >>
    ELSE << "\n", "-", "-", "-", " ", "P", "a", "g", "e", " " >> \o << DigitChars[i + 1] >>
         \o << " ", "-", "-", "-", "\n" >> \o pages[i] \o << "\n" >>
         \o PagesFrom(pages, i + 1)

extractPDFContent(file) == PagesFrom(file.read.pages, 1)

\* text.replace(/<[^>]*>/g, '')
RECURSIVE StripTags(_)
StripTags(s) ==
    IF s = << >> THEN << >>
    ELSE IF Head(s) = "<" /\ \E j \in 2..Len(s) : s[j] = ">"
         THEN LET close == CHOOSE j \in 2..Len(s) :
                               s[j] = ">" /\ \A k \in 2..(j - 1) : s[k] # ">"
              IN StripTags(SubSeq(s, close + 1, Len(s)))
         ELSE << Head(s) >> \o StripTags(Tail(s))

extractDocxContent(file) == StripTags(file.read.text)

\* extractContent rejects: the read rejects, the file is a .doc
\* (extractDocContent always throws) or the switch reaches its default
ExtractionFails_DocAsText(file) ==
    \/ file.read.kind = "rejected"
    \/ ~isValidFormat(file)

ExtractionFails(file) ==
    \/ file.read.kind = "rejected"
    \/ FileType(file) = supportedFormats[4]
    \/ ~isValidFormat(file)

extractContent(file) ==
    IF FileType(file) = supportedFormats[1] THEN extractPDFContent(file)
    ELSE IF FileType(file) = supportedFormats[2] THEN extractDocxContent(file)
    ELSE file.read.text

\* the texts of the files
FeePage == << "F", "e", "e", ":", " ", "R", "s", ".", "5", "0", "0", "0", " ", "d", "u", "e" >>

FeePageText ==
    << "\n", "-", "-", "-", " ", "P", "a", "g", "e", " ", "1", " ", "-", "-", "-", "\n", "F", "e", "e", ":", " ", "R", "s", ".", "5", "0", "0", "0", " ", "d", "u", "e", "\n" >>

SectionText ==
    << "S", "e", "c", "t", "i", "o", "n", " ", "1", " ", "W", "h", "a", "t", " ", "f", "e", "e", "?", " ", "R", "s", ".", "1", "0", "0", "." >>

TaggedText ==
    << "<", "p", ">", "t", "i", "t", "l", "e", "_", "5", "0", "0", "0", " ", "2", "0", "2", "4", " ", "f", "e", "e", " ", "R", "s", ".", "1", "0", "0", "<", "/", "p", ">" >>

PlainText ==
    << "t", "i", "t", "l", "e", "_", "5", "0", "0", "0", " ", "2", "0", "2", "4", " ", "f", "e", "e", " ", "R", "s", ".", "1", "0", "0" >>

(***************************************************************************)
(* DocumentProcessor: the patterns of the extractors                       *)
(*                                                                         *)
(* A text is a sequence of characters; a character outside ASCII is named  *)
(* by its code unit ("u20B9" is the rupee sign).  Offsets count from 0 as  *)
(* in the code, so the character at offset i of s is s[i + 1].  A pattern  *)
(* with the i flag is matched against the lower-cased text and lower-cased *)
(* literals.                                                               *)
(***************************************************************************)
Digits == { DigitChars[k] : k \in 1..Len(DigitChars) }

\* the characters \w matches
WordChars ==
    UpperCaseLetters \cup { LowerCase[k] : k \in 1..Len(LowerCase) } \cup Digits \cup { "_" }

\* the literal t stands in s at offset i
At(s, i, t) == i + Len(t) <= Len(s) /\ \A k \in 1..Len(t) : s[i + k] = t[k]

\* the offset at which the longest run of characters of class that starts
\* at offset i ends: a greedy class*
RunIn(s, i, class) ==
    CHOOSE j \in i..Len(s) :
        /\ \A k \in (i + 1)..j : s[k] \in class
        /\ j = Len(s) \/ s[j + 1] \notin class

\* the same for the characters outside class: a greedy [^class]*
RunNotIn(s, i, class) ==
    CHOOSE j \in i..Len(s) :
        /\ \A k \in (i + 1)..j : s[k] \notin class
        /\ j = Len(s) \/ s[j + 1] \in class

\* content.substring(from, to) for 0 <= from <= to <= content.length
Substring(s, from, to) == SubSeq(s, from + 1, to)

\* String.prototype.trim
trim(s) ==
    LET Between(kept) ==
            IF kept = { } THEN << >>
            ELSE SubSeq(s, CHOOSE i \in kept : \A j \in kept : i <= j,
                           CHOOSE i \in kept : \A j \in kept : j <= i)
    IN Between({ i \in 1..Len(s) : s[i] \notin WhiteSpace })

\* what RegExp.prototype.exec returns: null, or the offset of the match, the
\* offset after it (the next lastIndex) and the captured groups
NoMatch == [found |-> FALSE]

Match(index, end, groups) ==
    [found |-> TRUE, index |-> index, end |-> end, groups |-> groups]

\* the outcome of attempts the matcher makes in order: the first that matches
RECURSIVE FirstMatch(_)
FirstMatch(attempts) ==
    IF attempts = << >> THEN NoMatch
    ELSE IF Head(attempts).found THEN Head(attempts)
         ELSE FirstMatch(Tail(attempts))

\* (?:CHAPTER|Chapter|...|...) of the first section pattern
ChapterWords ==
    << << "C", "H", "A", "P", "T", "E", "R" >>,
       << "C", "h", "a", "p", "t", "e", "r" >>,
       << "u0905", "u0927", "u094D", "u092F", "u093E", "u092F" >>,
       << "u092A", "u094D", "u0930", "u0915", "u0930", "u0923" >> >>

\* (?:SECTION|Section|...|...) of the second section pattern
SectionWords ==
    << << "S", "E", "C", "T", "I", "O", "N" >>,
       << "S", "e", "c", "t", "i", "o", "n" >>,
       << "u092D", "u093E", "u0917" >>,
       << "u0935", "u093F", "u092D", "u093E", "u0917" >> >>

\* (?:^|\n) at offset p: the offset after it, or -1.  Without the m flag ^
\* is the start of the text only
LineStart(content, p) ==
    IF p = 0 THEN 0
    ELSE IF p < Len(content) /\ content[p + 1] = "\n" THEN p + 1 ELSE -1

\* /(?:^|\n)\s*(?:CHAPTER|...)\s*\d+/g at offset p, for the words of a list
HeadingAt(content, words, p) ==
    LET Number(n, d) == IF d = n THEN NoMatch ELSE Match(p, d, << >>)
        Gap(n) == Number(n, RunIn(content, n, Digits))
        Word(w) ==
            FirstMatch([ k \in 1..Len(words) |->
                IF At(content, w, words[k])
                THEN Gap(RunIn(content, w + Len(words[k]), WhiteSpace))
                ELSE NoMatch ])
        Line(i) == IF i = -1 THEN NoMatch ELSE Word(RunIn(content, i, WhiteSpace))
    IN Line(LineStart(content, p))

\* /(?:^|\n)\s*(?:\d+\.|\d+\))\s*[A-Z][^.]*:/g at offset p: the greedy [^.]*
\* gives back characters down to the last colon before the next full stop
NumberedAt(content, p) ==
    LET Last(colons) ==
            IF colons = { } THEN NoMatch
            ELSE Match(p, CHOOSE j \in colons : \A h \in colons : h <= j, << >>)
        Title(c, stop) == Last({ j \in (c + 2)..stop : content[j] = ":" })
        Capital(c) ==
            IF c = Len(content) \/ content[c + 1] \notin UpperCaseLetters THEN NoMatch
            ELSE Title(c, RunNotIn(content, c + 1, { "." }))
        Number(w, d) ==
            IF d = w \/ d = Len(content) \/ content[d + 1] \notin { ".", ")" } THEN NoMatch
            ELSE Capital(RunIn(content, d + 1, WhiteSpace))
        Gap(w) == Number(w, RunIn(content, w, Digits))
        Line(i) == IF i = -1 THEN NoMatch ELSE Gap(RunIn(content, i, WhiteSpace))
    IN Line(LineStart(content, p))

\* (?:Q:|Question:|...:|...:) of the first FAQ pattern, under the i flag
QuestionMarkers ==
    << << "q", ":" >>,
       << "q", "u", "e", "s", "t", "i", "o", "n", ":" >>,
       << "u092A", "u094D", "u0930", "u0936", "u094D", "u0928", ":" >>,
       << "u0938", "u0935", "u093E", "u0932", ":" >> >>

\* (?:A:|Answer:|...:|...:) of the first FAQ pattern, under the i flag
AnswerMarkers ==
    << << "a", ":" >>,
       << "a", "n", "s", "w", "e", "r", ":" >>,
       << "u0909", "u0924", "u094D", "u0924", "u0930", ":" >>,
       << "u091C", "u0935", "u093E", "u092C", ":" >> >>

\* (?:...|What|How|...|When|Where|...|Why|...) of the second FAQ pattern, under the i flag
QuestionWords ==
    << << "u0915", "u094D", "u092F", "u093E" >>,
       << "w", "h", "a", "t" >>,
       << "h", "o", "w" >>,
       << "u0915", "u0948", "u0938", "u0947" >>,
       << "u0915", "u092C" >>,
       << "w", "h", "e", "n" >>,
       << "w", "h", "e", "r", "e" >>,
       << "u0915", "u0939", "u093E", "u0901" >>,
       << "w", "h", "y" >>,
       << "u0915", "u094D", "u092F", "u094B", "u0902" >> >>

\* [\u0964.]: the danda and the full stop
Stops == { "u0964", "." }

\* (?=Q:|Question:|...|$) at offset e
FaqLookahead(lower, e) ==
    \/ e = Len(lower)
    \/ \E k \in 1..Len(QuestionMarkers) : At(lower, e, QuestionMarkers[k])

\* the first FAQ pattern from the end i of its question marker, the match
\* having started at offset p:
\*   \s*([^?]*\?)\s*(?:A:|...)\s*([^Q]*?)(?=Q:|...|$)
\* [^?]* cannot pass a question mark and [^Q]*? stops at the first offset
\* where the lookahead holds, so every repetition has one length that can
\* lead to a match.  The question is content[a..q], the answer content[c..e).
Faq1After(content, lower, p, i) ==
    LET Answer(a, q, c, e) ==
            IF \E h \in (c + 1)..e : lower[h] = "q" THEN NoMatch
            ELSE Match(p, e, << Substring(content, a, q + 1), Substring(content, c, e) >>)
        Lazy(a, q, c) ==
            Answer(a, q, c, CHOOSE j \in c..Len(content) :
                                /\ FaqLookahead(lower, j)
                                /\ \A h \in c..(j - 1) : ~FaqLookahead(lower, h))
        Marker(a, q, b) ==
            FirstMatch([ k \in 1..Len(AnswerMarkers) |->
                IF At(lower, b, AnswerMarkers[k])
                THEN Lazy(a, q, RunIn(content, b + Len(AnswerMarkers[k]), WhiteSpace))
                ELSE NoMatch ])
        Question(a, q) ==
            IF q = Len(content) THEN NoMatch
            ELSE Marker(a, q, RunIn(content, q + 1, WhiteSpace))
        Gap(a) == Question(a, RunNotIn(content, a, { "?" }))
    IN Gap(RunIn(content, i, WhiteSpace))

\* /(?:Q:|Question:|...)\s*([^?]*\?)\s*(?:A:|Answer:|...)\s*([^Q]*?)(?=Q:|...|$)/gis
\* at offset p
Faq1At(content, lower, p) ==
    FirstMatch([ k \in 1..Len(QuestionMarkers) |->
                   IF At(lower, p, QuestionMarkers[k])
                   THEN Faq1After(content, lower, p, p + Len(QuestionMarkers[k]))
                   ELSE NoMatch ])

\* the second FAQ pattern from the end i of its question word:
\*   ([^?]*\?)\s*([^\u0964.]*[\u0964.])
Faq2After(content, p, i) ==
    LET Answer(q, b, d) ==
            IF d = Len(content) THEN NoMatch
            ELSE Match(p, d + 1, << Substring(content, i, q + 1),
                                    Substring(content, b, d + 1) >>)
        Gap(q, b) == Answer(q, b, RunNotIn(content, b, Stops))
        Question(q) ==
            IF q = Len(content) THEN NoMatch
            ELSE Gap(q, RunIn(content, q + 1, WhiteSpace))
    IN Question(RunNotIn(content, i, { "?" }))

\* /(?:...|What|How|...)([^?]*\?)\s*([^\u0964.]*[\u0964.])/gis at offset p
Faq2At(content, lower, p) ==
    FirstMatch([ k \in 1..Len(QuestionWords) |->
                   IF At(lower, p, QuestionWords[k])
                   THEN Faq2After(content, p, p + Len(QuestionWords[k]))
                   ELSE NoMatch ])

\* (?:fee|fees|...|...) of the first fee pattern, under the i flag
FeeWords ==
    << << "f", "e", "e" >>,
       << "f", "e", "e", "s" >>,
       << "u0936", "u0941", "u0932", "u094D", "u0915" >>,
       << "u092B", "u0940", "u0938" >> >>

\* (?:\u20B9|Rs\.?|INR): the optional full stop is tried first
CurrencyMarks ==
    << << "u20B9" >>,
       << "R", "s", "." >>,
       << "R", "s" >>,
       << "I", "N", "R" >> >>

\* (?:,\d+)* from offset d
RECURSIVE CommaGroups(_, _)
CommaGroups(s, d) ==
    IF d + 2 <= Len(s) /\ s[d + 1] = "," /\ s[d + 2] \in Digits
    THEN CommaGroups(s, RunIn(s, d + 1, Digits))
    ELSE d

\* (?:\u20B9|Rs\.?|INR)\s*(\d+(?:,\d+)*) at offset q, the marks being looked
\* for in text (the content, or its lower case under the i flag)
AmountAt(content, text, marks, q) ==
    LET Group(w, e) == Match(q, e, << Substring(content, w, e) >>)
        Number(w, d) == IF d = w THEN NoMatch ELSE Group(w, CommaGroups(content, d))
        Gap(w) == Number(w, RunIn(content, w, Digits))
    IN FirstMatch([ k \in 1..Len(marks) |->
           IF At(text, q, marks[k])
           THEN Gap(RunIn(content, q + Len(marks[k]), WhiteSpace))
           ELSE NoMatch ])

\* /(?:fee|fees|...).*?(?:\u20B9|Rs\.?|INR)\s*(\d+(?:,\d+)*)/gis at offset p:
\* the lazy .*? (which passes line ends under the s flag) stops at the first
\* offset where the amount matches
Fee1At(content, lower, p) ==
    LET Whole(amount) ==
            IF amount.found THEN Match(p, amount.end, amount.groups) ELSE NoMatch
        Lazy(from, marks) ==
            Whole(FirstMatch([ k \in 1..(Len(content) - from + 1) |->
                                 AmountAt(content, lower, marks, from + k - 1) ]))
    IN FirstMatch([ k \in 1..Len(FeeWords) |->
           IF At(lower, p, FeeWords[k])
           THEN Lazy(p + Len(FeeWords[k]),
                     [ m \in 1..Len(CurrencyMarks) |-> toLowerCase(CurrencyMarks[m]) ])
           ELSE NoMatch ])

\* /(?:\u20B9|Rs\.?|INR)\s*(\d+(?:,\d+)*)/g at offset p
Fee2At(content, p) == AmountAt(content, content, CurrencyMarks, p)

\* \d{1,2} at offset p when a character of class has to follow: the offset
\* after the digits, or -1 (three digits in a row leave no way to match)
DigitsThen(content, p, class) ==
    LET Day(d) ==
            IF d - p \in { 1, 2 } /\ d < Len(content) /\ content[d + 1] \in class
            THEN d ELSE -1
    IN Day(RunIn(content, p, Digits))

\* \d{2,4} at offset p: the offset after the digits, or -1
Year(content, p) ==
    LET Most(d) == IF d - p < 2 THEN -1 ELSE IF d - p > 4 THEN p + 4 ELSE d
    IN Most(RunIn(content, p, Digits))

\* /(\d{1,2}[-/]\d{1,2}[-/]\d{2,4})/g at offset p
Date1At(content, p) ==
    LET Whole(c) == IF c = -1 THEN NoMatch ELSE Match(p, c, << Substring(content, p, c) >>)
        Third(b) == IF b = -1 THEN NoMatch ELSE Whole(Year(content, b + 1))
        Second(a) ==
            IF a = -1 THEN NoMatch ELSE Third(DigitsThen(content, a + 1, { "-", "/" }))
    IN Second(DigitsThen(content, p, { "-", "/" }))

\* (?:Jan|Feb|...|Dec|...) of the second date pattern, under the i flag
Months ==
    << << "j", "a", "n" >>,
       << "f", "e", "b" >>,
       << "m", "a", "r" >>,
       << "a", "p", "r" >>,
       << "m", "a", "y" >>,
       << "j", "u", "n" >>,
       << "j", "u", "l" >>,
       << "a", "u", "g" >>,
       << "s", "e", "p" >>,
       << "o", "c", "t" >>,
       << "n", "o", "v" >>,
       << "d", "e", "c" >>,
       << "u091C", "u0928" >>,
       << "u092B", "u0930" >>,
       << "u092E", "u093E", "u0930" >>,
       << "u0905", "u092A", "u094D", "u0930" >>,
       << "u092E", "u0908" >>,
       << "u091C", "u0942", "u0928" >>,
       << "u091C", "u0941", "u0932" >>,
       << "u0905", "u0917" >>,
       << "u0938", "u093F", "u0924" >>,
       << "u0905", "u0915", "u094D", "u0924" >>,
       << "u0928", "u0935" >>,
       << "u0926", "u093F", "u0938" >> >>

\* /(\d{1,2}\s+(?:Jan|...)\w*\s+\d{2,4})/gis at offset p: the day stands
\* before the month
Date2At(content, lower, p) ==
    LET Whole(c) == IF c = -1 THEN NoMatch ELSE Match(p, c, << Substring(content, p, c) >>)
        Gap(m, y) == IF y = m THEN NoMatch ELSE Whole(Year(content, y))
        Rest(m) == Gap(m, RunIn(content, m, WhiteSpace))
        Month(w) ==
            FirstMatch([ k \in 1..Len(Months) |->
                IF At(lower, w, Months[k])
                THEN Rest(RunIn(content, w + Len(Months[k]), WordChars))
                ELSE NoMatch ])
        Day(a) == IF a = -1 THEN NoMatch ELSE Month(RunIn(content, a, WhiteSpace))
    IN Day(DigitsThen(content, p, WhiteSpace))

\* the patterns in the order the code lists them
sectionPatterns == << "chapter", "section", "numbered" >>

faqPatterns == << "faq1", "faq2" >>

feePatterns == << "fee1", "fee2" >>

datePatterns == << "date1", "date2" >>

\* the match of a pattern that starts at offset p
MatchAt(pattern, content, lower, p) ==
    CASE pattern = "chapter" -> HeadingAt(content, ChapterWords, p)
      [] pattern = "section" -> HeadingAt(content, SectionWords, p)
      [] pattern = "numbered" -> NumberedAt(content, p)
      [] pattern = "faq1" -> Faq1At(content, lower, p)
      [] pattern = "faq2" -> Faq2At(content, lower, p)
      [] pattern = "fee1" -> Fee1At(content, lower, p)
      [] pattern = "fee2" -> Fee2At(content, p)
      [] pattern = "date1" -> Date1At(content, p)
      [] pattern = "date2" -> Date2At(content, lower, p)

\* while ((match = pattern.exec(content)) !== null): the matches of a pattern
\* with the g flag from lastIndex on; exec takes the first offset at which
\* the pattern matches and the next search starts where that match ended
RECURSIVE ExecAll(_, _, _, _)
ExecAll(pattern, content, lower, lastIndex) ==
    LET Then(match) ==
            IF ~match.found THEN << >>
            ELSE << match >> \o ExecAll(pattern, content, lower, match.end)
    IN Then(FirstMatch([ k \in 1..(Len(content) - lastIndex + 1) |->
                           MatchAt(pattern, content, lower, lastIndex + k - 1) ]))

\* the matches of the patterns of a list, pattern after pattern
RECURSIVE ExecEach(_, _)
ExecEach(patternList, content) ==
    IF patternList = << >> THEN << >>
    ELSE ExecAll(Head(patternList), content, toLowerCase(content), 0)
         \o ExecEach(Tail(patternList), content)

\* the code units of the Devanagari characters the patterns name
Devanagari ==
    "u0901" :> 2305 @@ "u0902" :> 2306 @@ "u0905" :> 2309 @@ "u0908" :> 2312 @@ "u0909" :> 2313
    @@ "u0915" :> 2325 @@ "u0917" :> 2327 @@ "u091B" :> 2331 @@ "u091C" :> 2332 @@ "u0923" :> 2339
    @@ "u0924" :> 2340 @@ "u0926" :> 2342 @@ "u0927" :> 2343 @@ "u0928" :> 2344 @@ "u092A" :> 2346
    @@ "u092B" :> 2347 @@ "u092C" :> 2348 @@ "u092D" :> 2349 @@ "u092E" :> 2350 @@ "u092F" :> 2351
    @@ "u0930" :> 2352 @@ "u0932" :> 2354 @@ "u0933" :> 2355 @@ "u0935" :> 2357 @@ "u0936" :> 2358
    @@ "u0937" :> 2359 @@ "u0938" :> 2360 @@ "u0939" :> 2361 @@ "u093E" :> 2366 @@ "u093F" :> 2367
    @@ "u0940" :> 2368 @@ "u0941" :> 2369 @@ "u0942" :> 2370 @@ "u0943" :> 2371 @@ "u0947" :> 2375
    @@ "u0948" :> 2376 @@ "u094B" :> 2379 @@ "u094D" :> 2381 @@ "u0964" :> 2404

\* the code units of a text, for detectPrimaryLanguage, which only tells the
\* ranges U+0900 to U+0CFF apart: every character of the model that is not
\* Devanagari (ASCII and the rupee sign) is outside them
CodeUnitsOf(s) ==
    [ i \in 1..Len(s) |-> IF s[i] \in DOMAIN Devanagari THEN Devanagari[s[i]] ELSE 0 ]

\* detectLanguage(text)
detectLanguage(text) == detectPrimaryLanguage(CodeUnitsOf(text))

\* sectionHeaders.sort((a, b) => a.position - b.position): the sort is stable
RECURSIVE InsertByPosition(_, _)
InsertByPosition(header, sorted) ==
    IF sorted = << >> THEN << header >>
    ELSE IF Head(sorted).position - header.position <= 0
         THEN << Head(sorted) >> \o InsertByPosition(header, Tail(sorted))
         ELSE << header >> \o sorted

RECURSIVE SortByPosition(_)
SortByPosition(headers) ==
    IF headers = << >> THEN << >>
    ELSE InsertByPosition(headers[Len(headers)],
                          SortByPosition(SubSeq(headers, 1, Len(headers) - 1)))

extractSections(content) ==
    LET Header(match) ==
            [ title |-> trim(Substring(content, match.index, match.end)),
              position |-> match.index ]
        Between(title, start, end) ==
            [ title |-> title, content |-> trim(Substring(content, start, end)),
              position |-> start ]
        Sections(sectionHeaders) ==
            [ i \in 1..Len(sectionHeaders) |->
                Between(sectionHeaders[i].title, sectionHeaders[i].position,
                        IF i < Len(sectionHeaders) THEN sectionHeaders[i + 1].position
                        ELSE Len(content)) ]
        Headers(found) == Sections(SortByPosition([ k \in 1..Len(found) |-> Header(found[k]) ]))
    IN Headers(ExecEach(sectionPatterns, content))

extractFAQs(content) ==
    LET Faq(match) ==
            [ question |-> trim(match.groups[1]),
              answer |-> trim(match.groups[2]),
              language |-> detectLanguage(Substring(content, match.index, match.end)) ]
        Faqs(found) == [ k \in 1..Len(found) |-> Faq(found[k]) ]
    IN Faqs(ExecEach(faqPatterns, content))

\* content.substring(Math.max(0, match.index - 50), match.index + 50)
ContextOf(content, index) ==
    Substring(content,
              IF index < 50 THEN 0 ELSE index - 50,
              IF index + 50 > Len(content) THEN Len(content) ELSE index + 50)

\* entities.push({type, value: match[1] || match[0], context}); the group of
\* every pattern holds at least one digit, so match[1] is the value
EntitiesOf(type, patternList, content) ==
    LET Entity(match) ==
            [ type |-> type,
              value |-> match.groups[1],
              context |-> ContextOf(content, match.index) ]
        Entities(found) == [ k \in 1..Len(found) |-> Entity(found[k]) ]
    IN Entities(ExecEach(patternList, content))

extractEntities(content) ==
    EntitiesOf("fee", feePatterns, content) \o EntitiesOf("date", datePatterns, content)

(***************************************************************************)
(* The extractors on texts of their own                                    *)
(***************************************************************************)
\* 'Q: What is the fee? '
QuestionPiece ==
    << "Q", ":", " ", "W", "h", "a", "t", " ", "i", "s", " ", "t", "h", "e", " ", "f", "e",
       "e", "?", " " >>

\* 'A: The fee is \u20B950,000 due January 15.'
AnswerPiece ==
    << "A", ":", " ", "T", "h", "e", " ", "f", "e", "e", " ", "i", "s", " ", "u20B9", "5",
       "0", ",", "0", "0", "0", " ", "d", "u", "e", " ", "J", "a", "n", "u", "a", "r", "y",
       " ", "1", "5", "." >>

\* ' Paid 15 January 2025.'
PaidPiece ==
    << " ", "P", "a", "i", "d", " ", "1", "5", " ", "J", "a", "n", "u", "a", "r", "y", " ",
       "2", "0", "2", "5", "." >>

\* 'Quota 12/01/25. '
QuotaPiece ==
    << "Q", "u", "o", "t", "a", " ", "1", "2", "/", "0", "1", "/", "2", "5", ".", " " >>

\* '\u0936\u0941\u0932\u094D\u0915: Rs. 1,200\u0964 '
HindiPiece ==
    << "u0936", "u0941", "u0932", "u094D", "u0915", ":", " ", "R", "s", ".", " ", "1", ",",
       "2", "0", "0", "u0964", " " >>

Pieces == { QuestionPiece, AnswerPiece, PaidPiece, QuotaPiece, HindiPiece }

RECURSIVE Concat(_)
Concat(chosen) == IF chosen = << >> THEN << >> ELSE Head(chosen) \o Concat(Tail(chosen))

\* the contents the extractors are given: up to MaxPieces pieces in a row
Contents == { Concat(chosen) : chosen \in UNION { [1..n -> Pieces] : n \in 0..MaxPieces } }

InitSegment ==
    /\ InitQueue
    /\ message = << >>
    /\ recentContext = Undefined
    /\ assessment = NoAssessment
    /\ InitKnowledge
    /\ NoDetection
    /\ segmentInput \in Contents
    /\ segments = NoResult
    /\ NoComparison
    /\ InitLogger
    /\ InitERP

\* extractSections, extractFAQs and extractEntities on a content, as
\* processContent calls them
ExtractSegments ==
    /\ segments = NoResult
    /\ segments' = [ kind |-> "segments",
                     sections |-> extractSections(segmentInput),
                     faqs |-> extractFAQs(segmentInput),
                     entities |-> extractEntities(segmentInput) ]
    /\ UNCHANGED << segmentInput, queueVars, analysisVars, knowledgeVars, detectVars,
                    loggerVars, erpVars >>

NextSegment == ExtractSegments

SpecSegment == InitSegment /\ [][NextSegment]_vars

\* the files callers hand to ingestDocument
Files ==
    { Pdf(<< "a", ".", "p", "d", "f" >>, << FeePage >>),
      Readable(<< "b", ".", "T", "X", "T" >>, SectionText),
      Readable(<< "c", ".", "d", "o", "c", "x" >>, TaggedText),
      Readable(<< "d", ".", "d", "o", "c" >>, PlainText),
      Readable(<< "e", ".", "e", "x", "e" >>, PlainText),
      Unreadable(<< "f", ".", "t", "x", "t" >>) }

\* the contents extractContent hands to processContent for these files
FileContents == { extractContent(file) : file \in { f \in Files : ~ExtractionFails(f) } }

\* what extractSections, extractFAQs and extractEntities return for each of
\* these contents.  The three are functions of the content alone, so their
\* results are worked out once for every content
Segmented ==
    [ content \in FileContents |->
        [ sections |-> extractSections(content),
          faqs |-> extractFAQs(content),
          entities |-> extractEntities(content) ] ]

Segment(content) == Segmented[content]

\* processContent; keyTopics and metadata are stored and read by nothing
processContent(content) ==
    [ originalContent |-> content,
      sections |-> Segment(content).sections,
      faqs |-> Segment(content).faqs,
      entities |-> Segment(content).entities ]

\* this.extractedKnowledge.set(knowledgeId, processedData)
storeKnowledge(knowledge, knowledgeId, processedData) ==
    IF \E i \in 1..Len(knowledge) : knowledge[i].id = knowledgeId
    THEN [ i \in 1..Len(knowledge) |->
             IF knowledge[i].id = knowledgeId
             THEN [id |-> knowledgeId, data |-> processedData]
             ELSE knowledge[i] ]
    ELSE Append(knowledge, [id |-> knowledgeId, data |-> processedData])

\* `kb_${Date.now()}_${Math.random().toString(36).substr(2, 9)}`: the clock
\* reading and the random suffix are the environment's choice, so the id is
\* one no document was stored under (the number of the call stands for it)
\* or, when both repeat, the id of a stored document
generateKnowledgeId(knowledge, call) ==
    { knowledge[i].id : i \in 1..Len(knowledge) } \cup { call }

\* `${knowledgeId}_section_${index}`, `${knowledgeId}_faq_${index}`,
\* `${knowledgeId}_entity_${index}`
PartId(knowledgeId, kind, index) == [doc |-> knowledgeId, kind |-> kind, index |-> index]

\* the prefix of `title_${word}`
TitlePrefix == << "t", "i", "t", "l", "e", "_" >>

\* this.multilingualIndex.has(key)
Has(index, key) == \E i \in 1..Len(index) : index[i].key = key

\* the ids of this.multilingualIndex.get(key), in the order they were added
Get(index, key) ==
    IF Has(index, key)
    THEN index[CHOOSE i \in 1..Len(index) : index[i].key = key].ids
    ELSE << >>

\* Set.prototype.add
SetAdd(ids, id) ==
    IF \E k \in 1..Len(ids) : ids[k] = id THEN ids ELSE Append(ids, id)

\* if (!index.has(key)) index.set(key, new Set()); index.get(key).add(id)
Post(index, key, id) ==
    IF Has(index, key)
    THEN [ i \in 1..Len(index) |->
             IF index[i].key = key
             THEN [key |-> key, ids |-> SetAdd(index[i].ids, id)]
             ELSE index[i] ]
    ELSE Append(index, [key |-> key, ids |-> << id >>])

\* words.forEach(word => { if (word.length > 2) post under prefix + word })
RECURSIVE PostWords(_, _, _, _)
PostWords(index, words, prefix, id) ==
    IF words = << >> THEN index
    ELSE PostWords(IF Len(Head(words)) > 2
                   THEN Post(index, prefix \o Head(words), id)
                   ELSE index,
                   Tail(words), prefix, id)

addToIndex(index, id, body, title) ==
    LET withBody == PostWords(index, split(toLowerCase(body)), << >>, id)
    IN IF title # << >>
       THEN PostWords(withBody, split(toLowerCase(title)), TitlePrefix, id)
       ELSE withBody

\* what createMultilingualIndex passes to addToIndex as content and as title
BodyOf(kind, part) ==
    CASE kind = "section" -> part.content
      [] kind = "faq" -> part.question \o << " " >> \o part.answer
      [] kind = "entity" -> part.context

TitleOf(kind, part) ==
    CASE kind = "section" -> part.title
      [] kind = "faq" -> part.question
      [] kind = "entity" -> part.value

\* parts.forEach((part, index) => this.addToIndex(...)) from part k on
RECURSIVE IndexParts(_, _, _, _, _)
IndexParts(index, parts, k, knowledgeId, kind) ==
    IF k > Len(parts) THEN index
    ELSE IndexParts(addToIndex(index, PartId(knowledgeId, kind, k - 1),
                               BodyOf(kind, parts[k]), TitleOf(kind, parts[k])),
                    parts, k + 1, knowledgeId, kind)

createMultilingualIndex_SectionsAndFaqs(index, processedData, knowledgeId) ==
    LET sections == IndexParts(index, processedData.sections, 1, knowledgeId, "section")
    IN IndexParts(sections, processedData.faqs, 1, knowledgeId, "faq")

createMultilingualIndex(index, processedData, knowledgeId) ==
    LET sections == IndexParts(index, processedData.sections, 1, knowledgeId, "section")
        faqs == IndexParts(sections, processedData.faqs, 1, knowledgeId, "faq")
    IN IndexParts(faqs, processedData.entities, 1, knowledgeId, "entity")

(***************************************************************************)
(* DocumentProcessor: search                                               *)
(***************************************************************************)
\* matches.set(id, (matches.get(id) || 0) + points)
Bump(matches, id, points) ==
    IF \E i \in 1..Len(matches) : matches[i].id = id
    THEN [ i \in 1..Len(matches) |->
             IF matches[i].id = id
             THEN [id |-> id, score |-> matches[i].score + points]
             ELSE matches[i] ]
    ELSE Append(matches, [id |-> id, score |-> points])

\* ids.forEach(id => bump)
RECURSIVE BumpAll(_, _, _)
BumpAll(matches, ids, points) ==
    IF ids = << >> THEN matches
    ELSE BumpAll(Bump(matches, Head(ids), points), Tail(ids), points)

\* queryWords.forEach
RECURSIVE Accumulate(_, _, _)
Accumulate(index, queryWords, matches) ==
    IF queryWords = << >> THEN matches
    ELSE LET direct == BumpAll(matches, Get(index, Head(queryWords)), 1)
             titled == BumpAll(direct, Get(index, TitlePrefix \o Head(queryWords)), 3)
         IN Accumulate(index, Tail(queryWords), titled)

\* one entry put into a list sorted by (a, b) => b[1] - a[1], behind the
\* entries that are not below it (the sort is stable)
InsertByScore(entry, sorted) ==
    LET ahead == { i \in 1..Len(sorted) : sorted[i].score >= entry.score }
        n == Cardinality(ahead)
    IN SubSeq(sorted, 1, n) \o << entry >> \o SubSeq(sorted, n + 1, Len(sorted))

RECURSIVE SortByScore(_)
SortByScore(entries) ==
    IF entries = << >> THEN << >>
    ELSE InsertByScore(entries[Len(entries)], SortByScore(SubSeq(entries, 1, Len(entries) - 1)))

\* slice(0, limit) for a limit >= 0, limit = 10 when the caller gives none
Slice(entries, limit) ==
    LET n == IF limit.kind = "undefined" THEN 10 ELSE limit.value
    IN SubSeq(entries, 1, IF n < Len(entries) THEN n ELSE Len(entries))

searchKnowledge_Unsorted(index, query, limit) ==
    Slice(Accumulate(index, split(toLowerCase(query)), << >>), limit)

searchKnowledge(index, query, limit) ==
    Slice(SortByScore(Accumulate(index, split(toLowerCase(query)), << >>)), limit)

\* the queries and limits callers search with
Queries ==
    { << >>,
      << "f", "e", "e" >>,
      << "f", "e", "e", "?" >>,
      << "S", "e", "c", "t", "i", "o", "n", " ", "f", "e", "e", "?" >>,
      << "1", "0", "0" >>,
      << "5", "0", "0", "0" >>,
      << "2", "0", "2", "4" >> }

Limits == { Undefined, Num(0), Num(2) }

\* this.extractedKnowledge.get(knowledgeId)
getKnowledge(knowledge, knowledgeId) ==
    IF \E i \in 1..Len(knowledge) : knowledge[i].id = knowledgeId
    THEN knowledge[CHOOSE i \in 1..Len(knowledge) : knowledge[i].id = knowledgeId].data
    ELSE Undefined

(***************************************************************************)
(* DocumentProcessor: export and import                                    *)
(***************************************************************************)
DigitValue == [ c \in { DigitChars[k] : k \in 1..10 } |->
                  (CHOOSE k \in 1..10 : DigitChars[k] = c) - 1 ]

\* canonical numeric strings of one length: a is the smaller number
DigitsBelow(a, b) ==
    \E i \in 1..Len(a) :
        /\ DigitValue[a[i]] < DigitValue[b[i]]
        /\ \A k \in 1..(i - 1) : a[k] = b[k]

\* canonical numeric strings: a is the smaller number
NumberBelow(a, b) ==
    Len(a) < Len(b) \/ (Len(a) = Len(b) /\ DigitsBelow(a, b))

\* the property keys an object lists first, in ascending numeric order: the
\* canonical numeric strings up to 2^32 - 2
IsArrayIndex(key) ==
    /\ key # << >>
    /\ \A i \in 1..Len(key) : key[i] \in DOMAIN DigitValue
    /\ Len(key) = 1 \/ key[1] # "0"
    /\ NumberBelow(key, << "4", "2", "9", "4", "9", "6", "7", "2", "9", "5" >>)

\* one entry put into the entries with array-index keys, ascending
InsertByKey(entry, sorted) ==
    LET ahead == { i \in 1..Len(sorted) : NumberBelow(sorted[i].key, entry.key) }
        n == Cardinality(ahead)
    IN SubSeq(sorted, 1, n) \o << entry >> \o SubSeq(sorted, n + 1, Len(sorted))

RECURSIVE SortByKey(_)
SortByKey(entries) ==
    IF entries = << >> THEN << >>
    ELSE InsertByKey(entries[Len(entries)], SortByKey(SubSeq(entries, 1, Len(entries) - 1)))

\* Object.fromEntries(entries): the properties of the object in the order
\* Object.entries lists them, array-index keys first
ObjectFromEntries(entries) ==
    LET IsIndexed(entry) == IsArrayIndex(entry.key)
        IsNamed(entry) == ~IsArrayIndex(entry.key)
    IN SortByKey(SelectSeq(entries, IsIndexed)) \o SelectSeq(entries, IsNamed)

\* exportKnowledgeBase; the keys of extractedKnowledge all begin with kb_, so
\* Object.fromEntries keeps their order; Array.from(set) lists the ids of a
\* set in the order they were added
exportKnowledgeBase(knowledge, index) ==
    [ kind |-> "export",
      knowledge |-> knowledge,
      index |-> ObjectFromEntries(index) ]

RECURSIVE SetFrom_Reversed(_)
SetFrom_Reversed(array) ==
    IF array = << >> THEN << >>
    ELSE SetAdd(SetFrom_Reversed(Tail(array)), Head(array))

\* new Set(array)
RECURSIVE SetFrom(_)
SetFrom(array) ==
    IF array = << >> THEN << >>
    ELSE SetAdd(SetFrom(SubSeq(array, 1, Len(array) - 1)), array[Len(array)])

\* the two maps importKnowledgeBase builds
importKnowledgeBase(exportedData) ==
    [ knowledge |-> exportedData.knowledge,
      index |-> [ i \in 1..Len(exportedData.index) |->
                    [ key |-> exportedData.index[i].key,
                      ids |-> SetFrom(exportedData.index[i].ids) ] ] ]

(***************************************************************************)
(* DocumentProcessor: the calls                                            *)
(***************************************************************************)
IngestRejected(call, file) == [kind |-> "rejected", call |-> call, file |-> file]

IngestFulfilled(call, file, knowledgeId, content, processedData) ==
    [ kind |-> "ingested",
      call |-> call,
      file |-> file,
      success |-> TRUE,
      knowledgeId |-> knowledgeId,
      contentLength |-> Len(content),
      sectionsExtracted |-> Len(processedData.sections),
      faqsExtracted |-> Len(processedData.faqs) ]

\* ingestDocument on a file isValidFormat refuses: the promise rejects at once
IngestDocumentRefuses(file) ==
    /\ ~isValidFormat(file)
    /\ nIngests' = nIngests + 1
    /\ lastResult' = IngestRejected(nIngests + 1, file)
    /\ UNCHANGED << extractedKnowledge, multilingualIndex, ingesting, backup >>

\* ingestDocument up to its first await, on extractContent
IngestDocumentStarts(file) ==
    /\ isValidFormat(file)
    /\ nIngests' = nIngests + 1
    /\ ingesting' = Append(ingesting, [call |-> nIngests + 1, file |-> file])
    /\ UNCHANGED << extractedKnowledge, multilingualIndex, backup, lastResult >>

IngestDocument(maxIngests) ==
    /\ nIngests < maxIngests
    /\ \E file \in Files : IngestDocumentRefuses(file) \/ IngestDocumentStarts(file)
    /\ UNCHANGED << queueVars, analysisVars, detectVars, segmentVars, loggerVars, erpVars >>

\* extractContent rejects: the catch block rethrows, nothing was stored
IngestDocumentFails ==
    /\ \E i \in 1..Len(ingesting) :
          /\ ExtractionFails(ingesting[i].file)
          /\ ingesting' = Without(ingesting, i)
          /\ lastResult' = IngestRejected(ingesting[i].call, ingesting[i].file)
    /\ UNCHANGED << extractedKnowledge, multilingualIndex, nIngests, backup >>
    /\ UNCHANGED << queueVars, analysisVars, detectVars, segmentVars, loggerVars, erpVars >>

\* extractContent fulfils: processContent, storeKnowledge and
\* createMultilingualIndex run without giving way to another call
IngestDocumentStores ==
    /\ \E i \in 1..Len(ingesting) :
          /\ ~ExtractionFails(ingesting[i].file)
          /\ LET extracted == extractContent(ingesting[i].file)
                 processedData == processContent(extracted)
             IN \E knowledgeId \in generateKnowledgeId(extractedKnowledge, ingesting[i].call) :
                   /\ extractedKnowledge' =
                          storeKnowledge(extractedKnowledge, knowledgeId, processedData)
                   /\ multilingualIndex' =
                          createMultilingualIndex(multilingualIndex, processedData, knowledgeId)
                   /\ lastResult' = IngestFulfilled(ingesting[i].call, ingesting[i].file,
                                                    knowledgeId, extracted, processedData)
          /\ ingesting' = Without(ingesting, i)
    /\ UNCHANGED << nIngests, backup >>
    /\ UNCHANGED << queueVars, analysisVars, detectVars, segmentVars, loggerVars, erpVars >>

SearchKnowledge ==
    /\ \E query \in Queries, limit \in Limits :
          lastResult' = [ kind |-> "results",
                          query |-> query,
                          limit |-> limit,
                          results |-> searchKnowledge(multilingualIndex, query, limit) ]
    /\ UNCHANGED << extractedKnowledge, multilingualIndex, ingesting, nIngests, backup >>
    /\ UNCHANGED << queueVars, analysisVars, detectVars, segmentVars, loggerVars, erpVars >>

ExportKnowledgeBase ==
    /\ backup' = exportKnowledgeBase(extractedKnowledge, multilingualIndex)
    /\ UNCHANGED << extractedKnowledge, multilingualIndex, ingesting, nIngests, lastResult >>
    /\ UNCHANGED << queueVars, analysisVars, detectVars, segmentVars, loggerVars, erpVars >>

\* importKnowledgeBase on what exportKnowledgeBase returned
ImportKnowledgeBase ==
    /\ backup.kind = "export"
    /\ extractedKnowledge' = importKnowledgeBase(backup).knowledge
    /\ multilingualIndex' = importKnowledgeBase(backup).index
    /\ UNCHANGED << ingesting, nIngests, backup, lastResult >>
    /\ UNCHANGED << queueVars, analysisVars, detectVars, segmentVars, loggerVars, erpVars >>

InitDocuments ==
    /\ InitQueue
    /\ message = << >>
    /\ recentContext = Undefined
    /\ assessment = NoAssessment
    /\ InitKnowledge
    /\ NoDetection
    /\ NoSegmentation
    /\ NoComparison
    /\ InitLogger
    /\ InitERP

\* ingestions and searches
NextKnowledge ==
    \/ IngestDocument(MaxIngests)
    \/ IngestDocumentFails
    \/ IngestDocumentStores
    \/ SearchKnowledge

SpecKnowledge == InitDocuments /\ [][NextKnowledge]_vars

\* ingestions, exports and imports
NextBackup ==
    \/ IngestDocument(MaxIngests)
    \/ IngestDocumentFails
    \/ IngestDocumentStores
    \/ ExportKnowledgeBase
    \/ ImportKnowledgeBase

SpecBackup == InitDocuments /\ [][NextBackup]_vars

(***************************************************************************)
(* Claims about the handoff queue                                          *)
(***************************************************************************)
PendingCount(queue) ==
    Cardinality({ i \in 1..Len(queue) : queue[i].status = "pending" })

PrioritiesInOrder(queue) ==
    [ i \in 1..Len(queue) |-> PriorityOf(queue[i].escalationInfo) ]

\* a step in which an initiateHandoff call builds and inserts its request
Inserts == nCalls' = nCalls + 1 /\ Len(inflight') = Len(inflight) + 1

\* C1: three requests of priority low, urgent, medium enqueued in that order
\* into an empty queue, none of them changing status: the urgent request got
\* position 1 and the medium request a position behind the urgent one.
C1_PriorityBeforeCount ==
    ( /\ nCalls = 3
      /\ PrioritiesInOrder(handoffQueue) = << "low", "urgent", "medium" >>
      /\ \A i \in 1..3 : handoffQueue[i].status = "pending" )
    => /\ handoffQueue[2].queuePosition = 1
       /\ handoffQueue[3].queuePosition >= 2

C3_DistinctPositions ==
    \A i, j \in 1..Len(handoffQueue) :
        ( /\ i < j
          /\ handoffQueue[i].status = "pending"
          /\ handoffQueue[j].status = "pending" )
        => handoffQueue[i].queuePosition # handoffQueue[j].queuePosition

\* C4: once an initiateHandoff call has failed, the request it built is not
\* in the queue.
C4_FailureLeavesQueue ==
    lastOutcome.kind = "rejected" =>
        \A i \in 1..Len(handoffQueue) : handoffQueue[i].oid # lastOutcome.oid

\* C5: an initiateHandoff call that inserts a request adds one entry to the
\* queue and leaves every entry that was there in place.
C5_FreshId ==
    [][ Inserts =>
            /\ Len(handoffQueue') = Len(handoffQueue) + 1
            /\ \A i \in 1..Len(handoffQueue) : handoffQueue'[i] = handoffQueue[i]
      ]_vars

Forward(from, to) ==
    \/ from = to
    \/ from = "pending" /\ to \in {"assigned", "abandoned"}
    \/ from = "assigned" /\ to = "resolved"

\* a step of the manager: initiateHandoff up to or after its await,
\* getQueueStatus, or analyzeEscalationNeed
ManagerStep ==
    \/ nCalls' # nCalls
    \/ inflight' # inflight
    \/ lastOutcome' # lastOutcome
    \/ assessment' # assessment

\* C6: a request enters the queue pending, the status of a request only moves
\* pending -> assigned -> resolved or pending -> abandoned, and a step of the
\* manager leaves the status of every request as it was.
C6_StatusForward ==
    [][ /\ \A j \in 1..Len(handoffQueue') :
              (\A i \in 1..Len(handoffQueue) : handoffQueue[i].oid # handoffQueue'[j].oid)
              => handoffQueue'[j].status = "pending"
        /\ \A i \in 1..Len(handoffQueue), j \in 1..Len(handoffQueue') :
              handoffQueue[i].oid = handoffQueue'[j].oid =>
                  /\ Forward(handoffQueue[i].status, handoffQueue'[j].status)
                  /\ ManagerStep => handoffQueue'[j].status = handoffQueue[i].status
      ]_vars

\* a request was inserted after the first one was assigned, the first one was
\* resolved, and the statistics were read
C6_Witness ==
    /\ Len(handoffQueue) = 2
    /\ handoffQueue[1].status = "resolved"
    /\ handoffQueue[2].status = "pending"
    /\ handoffQueue[2].queuePosition = 1
    /\ lastOutcome.kind = "queueStatus"
    /\ lastOutcome.totalInQueue = 1

(***************************************************************************)
(* Claims about the escalation analyser                                    *)
(***************************************************************************)
Analysed == assessment.kind = "assessment"

\* a value the caller's if takes as true
Truthy(v) == v.kind = "object" \/ (v.kind = "boolean" /\ v.value)

\* the rules with a trigger phrase that is contained in the lower-cased message
ApplicableRules ==
    LET lower == toLowerCase(message)
    IN { k \in 1..Len(escalationRules) :
           \E t \in 1..Len(escalationRules[k].triggers) :
               includes(lower, toLowerCase(escalationRules[k].triggers[t])) }

\* the number of phrases of the list that the lower-cased message contains
PhrasesFound(phrases) ==
    LET lower == toLowerCase(message)
    IN Cardinality({ k \in 1..Len(phrases) : includes(lower, phrases[k]) })

\* C7: shouldEscalate holds exactly when the score is at least 2 or a rule
\* matched, the score being 0.3 complexity + 0.4 frustration + 0.2 specificity
\* + 0.1 urgency; a message containing a trigger phrase of a rule escalates, a
\* message containing none with a score below 2 does not.
C7_ShouldEscalate ==
    Analysed =>
        LET score == 3 * assessment.signals.complexity + 4 * assessment.signals.frustration
                     + 2 * assessment.signals.specificity + assessment.signals.urgency
        IN /\ assessment.signals.complexity = PhrasesFound(complexityTriggers)
           /\ Truthy(assessment.shouldEscalate)
                <=> (score >= 20 \/ assessment.matchedRule.kind = "object")
           /\ \A applicable \in { ApplicableRules } :
                 /\ applicable # {} => Truthy(assessment.shouldEscalate)
                 /\ (applicable = {} /\ score < 20) => ~Truthy(assessment.shouldEscalate)

\* a message that contains a trigger phrase and no other signal escalates
C7_Witness ==
    /\ Analysed
    /\ ApplicableRules # {}
    /\ assessment.signals.complexity = 0
    /\ assessment.signals.frustration = 0
    /\ Truthy(assessment.shouldEscalate)

\* C8: the recommendation is the matched rule's priority, department and wait
\* time when a rule matched, else urgent/general/180 s from score 4, else
\* medium/general/600 s from score 2, else null.
C8_Recommendation ==
    Analysed =>
        LET score == 3 * assessment.signals.complexity + 4 * assessment.signals.frustration
            rec == assessment.recommendation
        IN \A applicable \in { ApplicableRules } :
           IF applicable # {}
           THEN LET rule == escalationRules[
                        CHOOSE k \in applicable : \A o \in applicable : k <= o]
                IN /\ rec.kind = "object"
                   /\ rec.priority = rule.priority
                   /\ rec.department = rule.department
                   /\ rec.estimatedWaitTime = rule.estimatedWaitTime
           ELSE IF score >= 40
           THEN /\ rec.kind = "object"
                /\ rec.priority = "urgent"
                /\ rec.department = "general"
                /\ rec.estimatedWaitTime = Num(180)
           ELSE IF score >= 20
           THEN /\ rec.kind = "object"
                /\ rec.priority = "medium"
                /\ rec.department = "general"
                /\ rec.estimatedWaitTime = Num(600)
           ELSE rec = Null

\* a message with a score of exactly 2 and no rule gets medium/general/600 s
C8_Witness ==
    /\ Analysed
    /\ ApplicableRules = {}
    /\ 3 * assessment.signals.complexity + 4 * assessment.signals.frustration = 20
    /\ assessment.recommendation.kind = "object"
    /\ assessment.recommendation.priority = "medium"

RegistrationOrder ==
    << "complex_financial", "technical_issues", "academic_complex",
       "admission_complex", "complaints" >>

\* C9: matchedRule is the first rule, in the order complex_financial,
\* technical_issues, academic_complex, admission_complex, complaints, with a
\* trigger phrase contained in the lower-cased message, and null when no rule
\* has one.
C9_FirstRuleInOrder ==
    Analysed =>
        \A applicable \in { ApplicableRules } :
            IF applicable = {} THEN assessment.matchedRule = Null
            ELSE LET first == CHOOSE k \in applicable : \A o \in applicable : k <= o
                 IN /\ assessment.matchedRule.kind = "object"
                    /\ assessment.matchedRule.name = RegistrationOrder[first]
                    /\ assessment.matchedRule.priority = escalationRules[first].priority

\* two rules have a trigger in the message and the earlier one is matched
C9_Witness ==
    /\ Analysed
    /\ Cardinality(ApplicableRules) >= 2
    /\ assessment.matchedRule.kind = "object"
    /\ assessment.matchedRule.name = "technical_issues"
    /\ 5 \in ApplicableRules

\* the entries of the context whose word overlap with the message is above 0.7
SimilarTurns ==
    { i \in 1..Len(recentContext.turns) :
        Above07(calculateSimilarity(recentContext.turns[i].message, message)) }

\* C10 as stated: with a context of three earlier messages, each similar to
\* the message, frustration is the number of phrases found plus 2.
C10_BonusWithThreeEarlier ==
    ( /\ Analysed
      /\ recentContext.kind = "array"
      /\ Len(recentContext.turns) = 3
      /\ SimilarTurns = 1..3 )
    => assessment.signals.frustration = PhrasesFound(frustrationTriggers) + 2

\* C10: frustration is the number of phrases found, plus 2 (once) when the
\* context has more than three entries and at least two of its last three are
\* similar to the message, however many entries are similar.
C10_BonusOnce ==
    Analysed =>
        LET n == IF recentContext.kind = "array" THEN Len(recentContext.turns) ELSE 0
            repeated ==
                /\ n > 3
                /\ Cardinality(SimilarTurns \cap ((n - 2)..n)) >= 2
        IN assessment.signals.frustration
               = PhrasesFound(frustrationTriggers) + (IF repeated THEN 2 ELSE 0)

\* four earlier messages, all of them similar to the message: one bonus of 2
C10_Witness ==
    /\ Analysed
    /\ recentContext.kind = "array"
    /\ Len(recentContext.turns) = 4
    /\ SimilarTurns = 1..4
    /\ PhrasesFound(frustrationTriggers) = 5
    /\ assessment.signals.frustration = 7

\* the context is absent or empty
NoPriorContext ==
    recentContext.kind = "undefined"
        \/ (recentContext.kind = "array" /\ recentContext.turns = << >>)

\* C11 as stated: the message 'This portal is not working, I need help
\* immediately' with no prior context has frustration >= 3 and score >= 2 and
\* escalates.
C11_PortalEscalates ==
    (Analysed /\ message = PortalMessage /\ NoPriorContext)
    => /\ assessment.signals.frustration >= 3
       /\ TotalScore(assessment.signals) >= 20
       /\ Truthy(assessment.shouldEscalate)

\* C11: the message 'This portal is not working, I need help immediately'
\* with no prior context contains two frustration phrases ('not working' and
\* 'immediately'; 'help me' is not in it), its score is 0.8, no rule matches
\* ('portal not working' is not in it verbatim) and it does not escalate.
C11_PortalDoesNotEscalate ==
    (Analysed /\ message = PortalMessage /\ NoPriorContext)
    => /\ assessment.signals.frustration = 2
       /\ assessment.signals.complexity = 0
       /\ 10 * assessment.confidence = 2 * 80
       /\ assessment.matchedRule = Null
       /\ assessment.recommendation = Null
       /\ ~Truthy(assessment.shouldEscalate)

\* the portal message has been analysed with an empty context
C11_Witness ==
    /\ Analysed
    /\ message = PortalMessage
    /\ recentContext.kind = "array"
    /\ recentContext.turns = << >>
    /\ includes(toLowerCase(message), frustrationTriggers[6])
    /\ includes(toLowerCase(message), frustrationTriggers[13])
    /\ ~includes(toLowerCase(message), frustrationTriggers[11])

(***************************************************************************)
(* Claims about the knowledge store and the index                          *)
(***************************************************************************)
\* the ids posted under a key of the index
PostedUnder(key) == { Get(multilingualIndex, key)[k] : k \in 1..Len(Get(multilingualIndex, key)) }

\* every id posted under some key
PostedIds ==
    UNION { { multilingualIndex[i].ids[k] : k \in 1..Len(multilingualIndex[i].ids) } :
              i \in 1..Len(multilingualIndex) }

\* 1 for each query token posted for the part in the body table (the keys
\* that are words), 3 for each posted for it in the title table (the keys
\* title_ + word)
RECURSIVE ExpectedScore(_, _)
ExpectedScore(queryWords, id) ==
    IF queryWords = << >> THEN 0
    ELSE (IF id \in PostedUnder(Head(queryWords)) THEN 1 ELSE 0)
         + (IF id \in PostedUnder(TitlePrefix \o Head(queryWords)) THEN 3 ELSE 0)
         + ExpectedScore(Tail(queryWords), id)

\* C12: searchKnowledge gives each part the sum over the query's tokens of 1
\* for a body posting and 3 for a title posting, returns only parts with a
\* positive score, in non-increasing order of score, and at most limit of
\* them (10 when no limit is given), the ones left out scoring no higher.
C12_SearchScores ==
    lastResult.kind = "results" =>
        LET queryWords == split(toLowerCase(lastResult.query))
            results == lastResult.results
            n == IF lastResult.limit.kind = "undefined" THEN 10 ELSE lastResult.limit.value
            positive == { id \in PostedIds : ExpectedScore(queryWords, id) > 0 }
            returned == { results[k].id : k \in 1..Len(results) }
        IN /\ \A k \in 1..Len(results) :
                 /\ results[k].score = ExpectedScore(queryWords, results[k].id)
                 /\ results[k].score > 0
           /\ \A k \in 1..(Len(results) - 1) : results[k].score >= results[k + 1].score
           /\ Cardinality(returned) = Len(results)
           /\ Len(results) <= n
           /\ Len(results) = n \/ returned = positive
           /\ \A id \in positive \ returned :
                 \A k \in 1..Len(results) : results[k].score >= ExpectedScore(queryWords, id)

\* a search whose limit cuts the list: a part with a title match (1 + 3) ahead
\* of a part with a body match only, other matching parts left out
C12_Witness ==
    /\ lastResult.kind = "results"
    /\ lastResult.limit = Num(2)
    /\ Len(lastResult.results) = 2
    /\ lastResult.results[1].score = 4
    /\ lastResult.results[2].score = 1
    /\ lastResult.results[1].id.kind = "faq"
    /\ Cardinality({ id \in PostedIds :
                       ExpectedScore(split(toLowerCase(lastResult.query)), id) > 0 }) > 2

\* the parts of the stored documents
PartsOf(entry) ==
    { PartId(entry.id, "section", k - 1) : k \in 1..Len(entry.data.sections) }
    \cup { PartId(entry.id, "faq", k - 1) : k \in 1..Len(entry.data.faqs) }
    \cup { PartId(entry.id, "entity", k - 1) : k \in 1..Len(entry.data.entities) }

StoredParts == UNION { PartsOf(extractedKnowledge[i]) : i \in 1..Len(extractedKnowledge) }

\* the section, FAQ or entity a part id of a stored document names
PartNamed(id) ==
    LET data == getKnowledge(extractedKnowledge, id.doc)
    IN CASE id.kind = "section" -> data.sections[id.index + 1]
         [] id.kind = "faq" -> data.faqs[id.index + 1]
         [] id.kind = "entity" -> data.entities[id.index + 1]

\* the tokens of a text that the index keeps
TokensOf(chars) ==
    LET words == split(toLowerCase(chars))
    IN { words[k] : k \in { j \in 1..Len(words) : Len(words[j]) > 2 } }

BodyTokens(id) == TokensOf(BodyOf(id.kind, PartNamed(id)))

TitleTokens(id) == TokensOf(TitleOf(id.kind, PartNamed(id)))

\* the keys a stored part is posted under when it is indexed
KeysOf(id) == BodyTokens(id) \cup { TitlePrefix \o w : w \in TitleTokens(id) }

\* every posting of the index comes from the stored version of a document
NoStalePosting ==
    \A i \in 1..Len(multilingualIndex) :
        \A k \in 1..Len(multilingualIndex[i].ids) :
            /\ multilingualIndex[i].ids[k] \in StoredParts
            /\ multilingualIndex[i].key \in KeysOf(multilingualIndex[i].ids[k])

\* the place of a part in a result list, 0 when it is not in it
PlaceOf(results, id) ==
    IF \E k \in 1..Len(results) : results[k].id = id
    THEN CHOOSE k \in 1..Len(results) : results[k].id = id
    ELSE 0

\* C13: a search for a token that is in the index only through a title of
\* parts of one document D returns D's part with a score of at least 3 and
\* ahead of every part of another document, none of which has the token in
\* its body.  (Stated for an index without stale postings, so that a failure
\* is not the one of C15.)
C13_TitleOnlyTokenRanksFirst ==
    ( /\ lastResult.kind = "results"
      /\ lastResult.limit.kind = "undefined"
      /\ Len(split(toLowerCase(lastResult.query))) = 1
      /\ NoStalePosting )
    => LET token == split(toLowerCase(lastResult.query))[1]
           results == lastResult.results
       IN \A part \in StoredParts :
             ( /\ token \in TitleTokens(part)
               /\ \A other \in StoredParts :
                     /\ token \notin BodyTokens(other)
                     /\ token \in TitleTokens(other) => other.doc = part.doc )
             => /\ PlaceOf(results, part) > 0
                /\ results[PlaceOf(results, part)].score >= 3
                /\ \A k \in 1..Len(results) :
                      results[k].id.doc # part.doc => PlaceOf(results, part) < k

\* C14: every part id in every posting set of the index names a document
\* that is in the knowledge store and a section, FAQ or entity of that
\* document.
C14_PostingsNameStoredParts == PostedIds \subseteq StoredParts

\* a call of ingestDocument has stored a document under an id that was taken
ReIngested ==
    /\ lastResult'.kind = "ingested"
    /\ lastResult' # lastResult
    /\ \E i \in 1..Len(extractedKnowledge) : extractedKnowledge[i].id = lastResult'.knowledgeId

\* C15: when a document is ingested under an identity that is already in the
\* store, the index afterwards holds no posting for that document that comes
\* from the earlier version only: every posting of one of its part ids is a
\* token of that part in the new version.
C15_ReIngestionRebuildsPostings ==
    [][ ReIngested =>
          \A i \in 1..Len(multilingualIndex') :
              \A k \in 1..Len(multilingualIndex'[i].ids) :
                  LET id == multilingualIndex'[i].ids[k]
                      data == getKnowledge(extractedKnowledge', id.doc)
                      parts == CASE id.kind = "section" -> data.sections
                                 [] id.kind = "faq" -> data.faqs
                                 [] id.kind = "entity" -> data.entities
                  IN id.doc = lastResult'.knowledgeId =>
                        /\ id.index < Len(parts)
                        /\ multilingualIndex'[i].key \in
                               TokensOf(BodyOf(id.kind, parts[id.index + 1]))
                               \cup { TitlePrefix \o w :
                                        w \in TokensOf(TitleOf(id.kind, parts[id.index + 1])) }
      ]_vars

\* C16: a fresh DocumentProcessor that imports what exportKnowledgeBase
\* returns answers every search with the same list (ids, scores, order) and
\* every getKnowledge with the same document as the exporting one.
C16_RoundTrip ==
    backup = exportKnowledgeBase(extractedKnowledge, multilingualIndex) =>
        \A fresh \in { importKnowledgeBase(backup) } :
            /\ \A query \in Queries, limit \in Limits :
                  searchKnowledge(fresh.index, query, limit)
                      = searchKnowledge(multilingualIndex, query, limit)
            /\ \A knowledgeId \in 1..(MaxIngests + 1) :
                  getKnowledge(fresh.knowledge, knowledgeId)
                      = getKnowledge(extractedKnowledge, knowledgeId)

\* an export whose index lists its keys in another order than the map (the
\* key 2024 moves to the front), of a store with two documents
C16_Witness ==
    /\ backup = exportKnowledgeBase(extractedKnowledge, multilingualIndex)
    /\ Len(extractedKnowledge) = 2
    /\ backup.index # multilingualIndex
    /\ Len(searchKnowledge(importKnowledgeBase(backup).index, << "1", "0", "0" >>, Undefined)) >= 4

(***************************************************************************)
(* Claims about language detection                                         *)
(***************************************************************************)
Languages == { patterns[k].lang : k \in 1..Len(patterns) }

MatchesOf(lang) ==
    MatchCount(detectInput, patterns[CHOOSE k \in 1..Len(patterns) : patterns[k].lang = lang])

\* C17: detectPrimaryLanguage returns the language with the most matching
\* code points, and 'en' when languages tie for the most or nothing matches.
C17_MostMatchesElseBaseline ==
    detectedLang.kind = "language" =>
        LET best == { lang \in Languages : \A other \in Languages : MatchesOf(other) <= MatchesOf(lang) }
            none == \A lang \in Languages : MatchesOf(lang) = 0
        IN IF none \/ Cardinality(best) > 1
           THEN detectedLang.code = "en"
           ELSE detectedLang.code \in best

(***************************************************************************)
(* Claims about ingestion                                                  *)
(***************************************************************************)
\* a file ingestDocument cannot take: its extension is not pdf, docx, txt or
\* doc, or it is a .doc (no extractor), or reading it fails
CannotBeIngested(file) ==
    \/ FileType(file) \notin { << "p", "d", "f" >>, << "d", "o", "c", "x" >>, << "t", "x", "t" >> }
    \/ file.read.kind = "rejected"

\* C18: ingestDocument on a file with an unsupported extension or whose
\* extraction fails rejects, and its rejection leaves the knowledge store and
\* the index as they were; no such file is ever stored.
C18_FailedIngestionChangesNothing ==
    [][ /\ (lastResult'.kind = "rejected" /\ lastResult' # lastResult)
            => /\ CannotBeIngested(lastResult'.file)
               /\ UNCHANGED << extractedKnowledge, multilingualIndex >>
        /\ lastResult'.kind = "ingested" => ~CannotBeIngested(lastResult'.file)
        /\ \A i \in 1..Len(ingesting) :
              ( CannotBeIngested(ingesting[i].file)
                /\ \A j \in 1..Len(ingesting') : ingesting'[j].call # ingesting[i].call )
              => /\ lastResult' = IngestRejected(ingesting[i].call, ingesting[i].file)
                 /\ UNCHANGED << extractedKnowledge, multilingualIndex >>
      ]_vars

\* a .doc file has been rejected by a processor that holds a document
C18_Witness ==
    /\ lastResult.kind = "rejected"
    /\ FileType(lastResult.file) = << "d", "o", "c" >>
    /\ extractedKnowledge # << >>
    /\ multilingualIndex # << >>

\* C19: searchKnowledge with an empty query and analyzeEscalationNeed with an
\* empty message fail with InvalidRequest: no result list and no assessment
\* is ever handed back for them.
C19_EmptyInputRejected ==
    /\ lastResult.kind = "results" => lastResult.query # << >>
    /\ assessment.kind = "assessment" => message # << >>

(***************************************************************************)
(* Claims about the confirmation                                           *)
(***************************************************************************)
\* the language of the most recent turn, 'en' without one
ExpectedLanguage(context) ==
    IF context.turns = << >> THEN "en"
    ELSE IF context.turns[Len(context.turns)].language \in { "undefined", "" } THEN "en"
    ELSE context.turns[Len(context.turns)].language

\* C20: a request's language is that of the most recent context turn, or
\* 'en' when the context is empty or the turn has no language; the
\* confirmation a call returns is the template of that language for en, hi
\* and mr and the English one otherwise, and it carries the queue position
\* and the handoff id the call returns.
C20_ConfirmationLanguage ==
    [][ /\ \A i \in 1..Len(handoffQueue') :
              (\A j \in 1..Len(handoffQueue) : handoffQueue[j].oid # handoffQueue'[i].oid)
              => handoffQueue'[i].language = ExpectedLanguage(handoffQueue'[i].context)
        /\ (lastOutcome'.kind = "fulfilled" /\ inflight # << >> /\ inflight' = Tail(inflight))
            => LET req == Head(inflight)
                   confirmation == lastOutcome'.confirmationMessage
               IN /\ req.language = ExpectedLanguage(req.context)
                  /\ confirmation.template
                       = (IF req.language \in { "en", "hi", "mr" } THEN req.language ELSE "en")
                  /\ confirmation.queuePosition = lastOutcome'.queuePosition
                  /\ confirmation.reference = lastOutcome'.handoffId
                  /\ lastOutcome'.queuePosition = req.queuePosition
                  /\ lastOutcome'.handoffId = req.id
      ]_vars

\* a call whose context ends with a turn in a language without a template
\* (after a turn in Hindi) has got the English confirmation
C20_Witness ==
    /\ lastOutcome.kind = "fulfilled"
    /\ lastOutcome.confirmationMessage.template = "en"
    /\ \E i \in 1..Len(handoffQueue) :
          /\ handoffQueue[i].oid = lastOutcome.oid
          /\ handoffQueue[i].language = "ta"
          /\ Len(handoffQueue[i].context.turns) = 2
          /\ handoffQueue[i].context.turns[1].language = "hi"
          /\ lastOutcome.confirmationMessage.reference = handoffQueue[i].id

(***************************************************************************)
(* C21: the queue statistics                                               *)
(***************************************************************************)
PendingIn(queue) == { i \in 1..Len(queue) : queue[i].status = "pending" }

RECURSIVE SumOf(_, _)
\* the sum of the counts of breakdown over the departments in depts
SumOf(breakdown, depts) ==
    IF depts = { } THEN 0
    ELSE LET d == CHOOSE x \in depts : TRUE
         IN breakdown[d] + SumOf(breakdown, depts \ { d })

\* a step in which getQueueStatus hands a status back
ReturnsQueueStatus == lastOutcome' # lastOutcome /\ lastOutcome'.kind = "queueStatus"

\* C21: the status getQueueStatus returns counts exactly the requests that
\* are pending at the call: totalInQueue is their number, departmentBreakdown
\* holds for each department the number of pending requests of it and its
\* counts sum to totalInQueue, averageWaitTime is 0 when none is pending, and
\* the call changes neither the queue nor the calls under way.
C21_QueueStatusCountsPending ==
    [][ ReturnsQueueStatus =>
          /\ lastOutcome'.totalInQueue = Cardinality(PendingIn(handoffQueue))
          /\ DOMAIN lastOutcome'.departmentBreakdown
                = { handoffQueue[i].department : i \in PendingIn(handoffQueue) }
          /\ \A d \in DOMAIN lastOutcome'.departmentBreakdown :
                lastOutcome'.departmentBreakdown[d]
                  = Cardinality({ i \in PendingIn(handoffQueue) :
                                    handoffQueue[i].department = d })
          /\ SumOf(lastOutcome'.departmentBreakdown,
                   DOMAIN lastOutcome'.departmentBreakdown)
                = lastOutcome'.totalInQueue
          /\ (PendingIn(handoffQueue) = { } => lastOutcome'.averageWaitTime = 0)
          /\ UNCHANGED << handoffQueue, inflight, nCalls >> ]_vars

\* a status that counts one pending request while another request of the
\* queue is no longer pending
C21_Witness ==
    /\ lastOutcome.kind = "queueStatus"
    /\ lastOutcome.totalInQueue = 1
    /\ Cardinality(PendingIn(handoffQueue)) = 1
    /\ \E i \in 1..Len(handoffQueue) :
          handoffQueue[i].status \in { "assigned", "resolved", "abandoned" }

(***************************************************************************)
(* C22: the FAQ example                                                    *)
(***************************************************************************)
\* 'Q: What is the fee? A: The fee is \u20B950,000 due January 15.'
ExampleText == QuestionPiece \o AnswerPiece

EntitiesOfType(type) == SelectSeq(segments.entities, LAMBDA e : e.type = type)

\* C22: segmenting the example text yields exactly one FAQ, with the
\* question 'What is the fee?', exactly one fee entity, of value 50,000, and
\* exactly one date entity, of value January 15.
C22_ExampleSegments ==
    (segmentInput = ExampleText /\ segments.kind = "segments") =>
        /\ Len(segments.faqs) = 1
        /\ segments.faqs[1].question = Substring(QuestionPiece, 3, 19)
        /\ Len(EntitiesOfType("fee")) = 1
        /\ EntitiesOfType("fee")[1].value = Substring(AnswerPiece, 15, 21)
        /\ Len(EntitiesOfType("date")) = 1
        /\ EntitiesOfType("date")[1].value = Substring(AnswerPiece, 26, 36)

\* the distinct lower-cased words of a message
TokenSet(msg) ==
    LET Tokens(words) == { words[k] : k \in 1..Len(words) }
    IN Tokens(split(toLowerCase(msg)))

\* C23: calculateSimilarity(a, b) is |intersection| / |union| of the two
\* messages' sets of lower-cased tokens, each distinct token counted once,
\* also for messages with repeated words
C23_SimilarityIsSetOverlap ==
    similarityReturned.kind = "number" =>
        LET Overlap(a, b) ==
                similarityReturned.num * Cardinality(a \cup b)
                    = similarityReturned.den * Cardinality(a \cap b)
        IN Overlap(TokenSet(compared[1]), TokenSet(compared[2]))

\* C24: the context and the assessment held in a stored request stay as they
\* were at enqueue time, whatever the caller later does to the context list
\* or the assessment object it passed in; so the priority later sorts read
\* from the request stays too
C24_StoredInputsStay ==
    [][\A i \in 1..Len(handoffQueue) :
          (i <= Len(handoffQueue') /\ handoffQueue'[i].oid = handoffQueue[i].oid)
              => /\ handoffQueue'[i].context = handoffQueue[i].context
                 /\ handoffQueue'[i].escalationInfo = handoffQueue[i].escalationInfo
                 /\ Weight(handoffQueue'[i]) = Weight(handoffQueue[i])]_vars

\* what the texts of a stored part earn it for a query: 1 for each query token
\* that is a token of its body, 3 for each that is a token of its title
RECURSIVE TextScore(_, _)
TextScore(queryWords, id) ==
    IF queryWords = << >> THEN 0
    ELSE (IF Head(queryWords) \in BodyTokens(id) THEN 1 ELSE 0)
         + (IF Head(queryWords) \in TitleTokens(id) THEN 3 ELSE 0)
         + TextScore(Tail(queryWords), id)

\* C25: a posting made from a part's body only ever contributes body weight
\* and one made from its title only title weight: in every search the score
\* of a returned part is 1 for each query token in its body plus 3 for each
\* query token in its title, so no token earns title points from a body word
\* or a body point from a title word.  (Stated for an index without stale
\* postings, so that a failure is not the one of C15.)
C25_BodyAndTitleApart ==
    (lastResult.kind = "results" /\ NoStalePosting)
    => LET Apart(queryWords, results) ==
               \A k \in 1..Len(results) :
                   results[k].score = TextScore(queryWords, results[k].id)
       IN Apart(split(toLowerCase(lastResult.query)), lastResult.results)

\* C26: whatever the interleaving of ingestDocument and searchKnowledge calls,
\* no search (no step at all) sees a document in the knowledge store with
\* only some or none of its parts posted: every section, FAQ and entity of
\* every stored document is posted under every key of its body and title.
C26_StoredMeansPosted ==
    \A id \in StoredParts : \A key \in KeysOf(id) : id \in PostedUnder(key)

\* a search that found parts of a stored document while another ingestDocument
\* call was waiting for its content
C26_Witness ==
    /\ lastResult.kind = "results"
    /\ lastResult.results # << >>
    /\ ingesting # << >>
    /\ extractedKnowledge # << >>
    /\ \E id \in StoredParts : id.kind = "entity"

\* C27: in every assessment analyzeEscalationNeed returns the recommendation
\* is non-null exactly when shouldEscalate holds, so every escalated message
\* carries a priority, a department and an estimated wait time, and no
\* message that is not escalated does.
C27_RecommendationIffEscalated ==
    Analysed =>
        /\ assessment.recommendation # Null <=> Truthy(assessment.shouldEscalate)
        /\ Truthy(assessment.shouldEscalate) =>
              /\ assessment.recommendation.kind = "object"
              /\ assessment.recommendation.priority \in {"urgent", "high", "medium", "low"}
              /\ assessment.recommendation.department
                    \in {"finance", "IT", "academic", "admissions", "admin", "general"}
              /\ assessment.recommendation.estimatedWaitTime.kind = "number"
              /\ assessment.recommendation.estimatedWaitTime.value > 0

\* a message escalated on its score alone, no rule matched, with a recommendation
C27_Witness ==
    /\ Analysed
    /\ assessment.matchedRule = Null
    /\ Truthy(assessment.shouldEscalate)
    /\ assessment.recommendation.kind = "object"
    /\ assessment.recommendation.department = "general"

\* C28: every rule is reached through each of its own trigger phrases: for a
\* message that consists of just a trigger of rule R, in any letter case,
\* matchedRule is R
C28_RuleReachedByOwnTrigger ==
    Analysed =>
        \A k \in 1..Len(escalationRules) :
            \A t \in 1..Len(escalationRules[k].triggers) :
                toLowerCase(message) = toLowerCase(escalationRules[k].triggers[t])
                    => /\ assessment.matchedRule.kind = "object"
                       /\ assessment.matchedRule.name = RegistrationOrder[k]

\* C29: after any sequence of logMessage and logHandoffRequest calls, in any
\* order, handoffs logged before any conversation included,
\* analyticsData.handoffRate is a number between 0 and 1 inclusive
C29_HandoffRateInUnitInterval ==
    /\ analyticsData.handoffRate.kind = "number"
    /\ 0 <= analyticsData.handoffRate.num
    /\ analyticsData.handoffRate.num <= analyticsData.handoffRate.den

\* C30: after any sequence of registerIntegration, connectToERP and
\* disconnectFromERP calls, a system id is in activeConnections exactly when
\* the integration registered under it has status 'active', so
\* getIntegrationStatus never reports isActive = true together with a status
\* other than 'active'
C30_ActiveIffStatusActive ==
    /\ \A systemId \in SystemIds :
          systemId \in activeConnections
              <=> /\ Registered(integrations, systemId)
                  /\ integrationObjects[ObjectOf(integrations, systemId)].status = "active"
    /\ (lastStatus.kind = "status" /\ lastStatus.status # "not_found" /\ lastStatus.isActive)
          => lastStatus.status = "active"

====
